---- MODULE Spec2Model ----
(***************************************************************************)
(* Strict priority scheduler with priority donation (design_doc.md,        *)
(* "Strict Priority Scheduler Design Document"): ready list, semaphores,   *)
(* locks with donation, and the priority-basic test.                       *)
(* One uniprocessor: only the RUNNING thread takes steps; a timer tick may *)
(* preempt it wherever interrupts are enabled, that is between any two of  *)
(* the steps below (each step is one interrupts-disabled section or one    *)
(* plain statement of the C code).                                         *)
(***************************************************************************)
EXTENDS Integers, Sequences, FiniteSets, TLC

\* ---------------------------------------------------------------- bounds
NumThreads == 4
MaxLive == 3
NumLocks == 2
MaxWaits == 3
MaxChildren == 1
MaxOpen == 1
MaxProcs == 2

\* ------------------------------------------------------------- constants
NULL == 0
Threads == 1..NumThreads
IDLE == NumThreads + 1
Locks == 1..NumLocks
\* The one plain (non-lock) semaphore; a lock's semaphore has the lock's index.
PlainSema == NumLocks + 1
\* The private semaphore of thread t's condition_waiter.
WaitSema(t) == PlainSema + t
Semas == 1..(PlainSema + NumThreads)
\* Priorities of the design document's donation example: L, M, H.
Priorities == {10, 30, 60}

VARIABLES
    status,       \* thread -> "NONE" (not created), "READY", "RUNNING", "BLOCKED", "DYING"
    priority,     \* thread -> base priority (struct thread.priority)
    donations,    \* thread -> sequence of donations received, highest first
    donating_to,  \* thread -> thread it donates to, or NULL
    held_locks,   \* thread -> sequence of locks held
    holder,       \* lock -> holding thread, or NULL
    sema_value,   \* semaphore -> count
    waiters,      \* semaphore -> sequence of waiting threads
    ready_list,   \* sequence of READY threads
    current,      \* the RUNNING thread, IDLE when the idle thread runs
    pc,           \* thread -> position in the operation it is executing
    arg,          \* thread -> operand or local of the operation it is executing
    execution_order,  \* priority-basic.c: the priorities recorded, -1 if unset
    execution_count,  \* priority-basic.c: number of records made
    cond_waiters, \* the condition's waiters: sequence of threads
    cw,           \* thread -> position inside cond_wait, "none" outside
    child_info,   \* pid -> the child_info of that child in the parent's children list
    proc,         \* thread -> position and locals inside process_execute / wait / exit
                  \*           and syscall_handler, and the size of its open_files
    wait_log,     \* sequence of the returns of process_wait: pid, value, path
    ticks,        \* devices/timer.c: number of timer ticks since boot
    wake_time,    \* thread -> struct thread.wake_time, 0 when it never slept
    sleep_list    \* sequence of sleeping threads, earliest wake_time first

\* The state of the process layer.
procvars == <<child_info, proc, wait_log>>

\* The state of the alarm clock.
timervars == <<ticks, wake_time, sleep_list>>

vars == <<status, priority, donations, donating_to, held_locks, holder,
          sema_value, waiters, ready_list, current, pc, arg,
          execution_order, execution_count, cond_waiters, cw, procvars, timervars>>

\* ------------------------------------------------------------ list helpers
Range(s) == {s[i] : i \in 1..Len(s)}

Max(a, b) == IF a >= b THEN a ELSE b

InsertAt(s, i, x) == SubSeq(s, 1, i - 1) \o <<x>> \o SubSeq(s, i, Len(s))

\* lib/kernel/list.c list_push_back: the element goes to the tail, whatever
\* its key.
list_push_back(s, x, key) == Append(s, x)

\* lib/kernel/list.c list_insert_ordered with a "greater" comparator on keys:
\* the element goes before the first element whose key is strictly smaller,
\* hence behind every element of an equal key.  key is a function of elements.
list_insert_ordered(s, x, key) ==
    LET smaller == {i \in 1..Len(s) : key[x] > key[s[i]]}
    IN  IF smaller = {} THEN Append(s, x)
        ELSE InsertAt(s, CHOOSE i \in smaller : \A j \in smaller : i <= j, x)

\* ------------------------------------------------------- donation lists
\* donation_priority_greater ordering: insert a donation record into a list
\* sorted by donated_priority, highest first.
donation_insert_ordered(s, d) ==
    LET smaller == {i \in 1..Len(s) : d.donated_priority > s[i].donated_priority}
    IN  IF smaller = {} THEN Append(s, d)
        ELSE InsertAt(s, CHOOSE i \in smaller : \A j \in smaller : i <= j, d)

\* A list_sort that leaves the list as it is.
donation_list_unsorted(s) == s

\* list_sort(&donations, donation_priority_greater): a stable sort.
RECURSIVE donation_list_sort(_)
donation_list_sort(s) ==
    IF s = <<>> THEN <<>>
    ELSE donation_insert_ordered(donation_list_sort(SubSeq(s, 1, Len(s) - 1)), s[Len(s)])

\* A thread_get_priority that lets a donation suppress the base priority:
\* the donated priority at the front of the donations list, if there is one.
get_priority_donation_first(pri, dons, t) ==
    IF dons[t] = <<>> THEN pri[t]
    ELSE Head(dons[t]).donated_priority

\* thread_get_priority over given base priorities and donation lists:
\* max(base priority, donated priority at the front of the donations list).
get_priority_in(pri, dons, t) ==
    IF dons[t] = <<>> THEN pri[t]
    ELSE Max(pri[t], Head(dons[t]).donated_priority)

thread_get_priority(t) == get_priority_in(priority, donations, t)

\* Effective priorities of all threads, as the comparator of the ready list
\* and of the waiters lists reads them.
EffIn(pri, dons) == [t \in Threads |-> get_priority_in(pri, dons, t)]

\* find_donation_by_donor_and_donee: index of the first donation of donor in
\* donee's list dons, 0 when there is none.
find_donation_by_donor_and_donee(dons, donor) ==
    LET hits == {i \in 1..Len(dons) : dons[i].donor = donor}
    IN  IF hits = {} THEN 0 ELSE CHOOSE i \in hits : \A j \in hits : i <= j

\* The chain walk of lock_acquire: starting at recipient, follow donating_to;
\* raise the existing donation of each recipient to its own donee to amount
\* when it is smaller, and re-sort that donee's list.  dt is donating_to with
\* the caller's link set.
RECURSIVE donate_chain(_, _, _, _)
donate_chain(dons, dt, recipient, amount) ==
    IF dt[recipient] = NULL THEN dons
    ELSE LET next == dt[recipient]
             i == find_donation_by_donor_and_donee(dons[next], recipient)
             raised == IF i # 0 /\ dons[next][i].donated_priority < amount
                       THEN [dons EXCEPT ![next] = donation_list_sort(
                                [dons[next] EXCEPT ![i].donated_priority = amount])]
                       ELSE dons
         IN  donate_chain(raised, dt, next, amount)

\* ------------------------------------------------------------- scheduler
\* A schedule() that switches to the front of the ready list without marking
\* it RUNNING.
schedule_unmarked(st, rl) ==
    IF rl = <<>>
    THEN /\ current' = IDLE
         /\ ready_list' = <<>>
         /\ status' = st
    ELSE /\ current' = Head(rl)
         /\ ready_list' = Tail(rl)
         /\ status' = st

\* schedule() with next_thread_to_run(): the front of the ready list runs,
\* the idle thread when the list is empty.  st and rl are the thread states
\* and the ready list as the caller left them.
schedule(st, rl) ==
    IF rl = <<>>
    THEN /\ current' = IDLE
         /\ ready_list' = <<>>
         /\ status' = st
    ELSE /\ current' = Head(rl)
         /\ ready_list' = Tail(rl)
         /\ status' = [st EXCEPT ![Head(rl)] = "RUNNING"]

\* thread_yield of t: t goes back into the ready list in priority order,
\* then the scheduler picks the front.
do_yield(t, eff) ==
    schedule([status EXCEPT ![t] = "READY"], list_insert_ordered(ready_list, t, eff))

Running(t) == t \in Threads /\ current = t /\ status[t] = "RUNNING"

\* A pid without child_info in the children list; the fields are those of
\* struct child_info as create_child_info initialises them.
NoChild ==
    [listed |-> FALSE, exit_status |-> -1, has_exited |-> FALSE,
     has_been_waited |-> FALSE]

\* A thread outside process_execute, process_wait, process_exit and the
\* system call handler, with no open file.
\* userprog/syscall.c: the console descriptors and the first number open
\* hands out.
STDIN_FILENO == 0
STDOUT_FILENO == 1
FIRST_FILE_FD == 2

NoProc ==
    [at |-> "none", pid |-> NULL, status |-> -1, parent |-> NULL,
     load_success |-> FALSE, ret |-> -1,
     syscall |-> "none", open_files |-> 0,
     fds |-> <<>>, next_fd |-> FIRST_FILE_FD, fd_log |-> <<>>]

ProcInit ==
    /\ child_info = [c \in Threads |-> NoChild]
    /\ proc = [t \in Threads |-> NoProc]
    /\ wait_log = <<>>

\* timer_init and init_thread: no tick yet, nobody sleeps, wake_time = 0.
TimerInit ==
    /\ ticks = 0
    /\ wake_time = [t \in Threads |-> 0]
    /\ sleep_list = <<>>

Init ==
    /\ ProcInit
    /\ TimerInit
    /\ status = [t \in Threads |-> IF t = 1 THEN "RUNNING" ELSE "NONE"]
    /\ priority \in [Threads -> Priorities]
    /\ \A t \in Threads : t # 1 => priority[t] = 10
    /\ donations = [t \in Threads |-> <<>>]
    /\ donating_to = [t \in Threads |-> NULL]
    /\ held_locks = [t \in Threads |-> <<>>]
    /\ holder = [l \in Locks |-> NULL]
    /\ sema_value = [s \in Semas |-> IF s \in Locks THEN 1 ELSE 0]
    /\ waiters = [s \in Semas |-> <<>>]
    /\ ready_list = <<>>
    /\ current = 1
    /\ pc = [t \in Threads |-> "run"]
    /\ arg = [t \in Threads |-> NULL]
    /\ execution_order = <<-1, -1, -1>>
    /\ execution_count = 0
    /\ cond_waiters = <<>>
    /\ cw = [t \in Threads |-> "none"]

\* thread_create by the running thread: the lowest unused thread slot becomes
\* a READY thread of priority p, inserted into the ready list in order.
thread_create(t, p) ==
    /\ Running(t) /\ pc[t] = "run"
    /\ \E n \in Threads :
         /\ status[n] = "NONE"
         /\ \A m \in Threads : status[m] = "NONE" => n <= m
         /\ priority' = [priority EXCEPT ![n] = p]
         /\ status' = [status EXCEPT ![n] = "READY"]
         /\ ready_list' = list_insert_ordered(ready_list, n, EffIn(priority', donations))
    /\ UNCHANGED <<donations, donating_to, held_locks, holder, sema_value,
                   waiters, current, pc, arg>>
    /\ UNCHANGED <<execution_order, execution_count, cond_waiters, cw, procvars, timervars>>

\* thread_yield called by the running thread.
thread_yield(t) ==
    /\ Running(t) /\ pc[t] = "run"
    /\ do_yield(t, EffIn(priority, donations))
    /\ UNCHANGED <<priority, donations, donating_to, held_locks, holder,
                   sema_value, waiters, pc, arg>>
    /\ UNCHANGED <<execution_order, execution_count, cond_waiters, cw, procvars, timervars>>

\* Timer tick at the end of a time slice: the running thread is made to
\* yield, at whatever point of its operation it is.
timer_tick ==
    /\ current \in Threads
    /\ pc[current] # "acq_walk_forever"
    /\ do_yield(current, EffIn(priority, donations))
    /\ UNCHANGED <<priority, donations, donating_to, held_locks, holder,
                   sema_value, waiters, pc, arg>>
    /\ UNCHANGED <<execution_order, execution_count, cond_waiters, cw, procvars, timervars>>

\* thread_set_priority: update the base priority, then yield at once when the
\* caller no longer has the highest effective priority in the system.
thread_set_priority(t, p) ==
    /\ Running(t) /\ pc[t] = "run"
    /\ p # priority[t]
    /\ priority' = [priority EXCEPT ![t] = p]
    /\ LET eff == EffIn(priority', donations)
       IN  IF \E r \in Range(ready_list) : eff[r] > eff[t]
           THEN do_yield(t, eff)
           ELSE UNCHANGED <<status, ready_list, current>>
    /\ UNCHANGED <<donations, donating_to, held_locks, holder, sema_value,
                   waiters, pc, arg>>
    /\ UNCHANGED <<execution_order, execution_count, cond_waiters, cw, procvars, timervars>>

\* thread_exit, called when the thread's function returns: the caller
\* becomes DYING and never runs again.
thread_exit(t) ==
    /\ Running(t) /\ pc[t] = "fn_return"
    /\ held_locks[t] = <<>>
    /\ schedule([status EXCEPT ![t] = "DYING"], ready_list)
    /\ UNCHANGED <<priority, donations, donating_to, held_locks, holder,
                   sema_value, waiters, pc, arg>>
    /\ UNCHANGED <<execution_order, execution_count, cond_waiters, cw, procvars, timervars>>

\* ------------------------------------------------------------ semaphores
\* sema_insert_ordered: the waiter goes into the waiters list in priority
\* order (list_insert_ordered on effective priority).
sema_insert_ordered(ws, t, eff) == list_insert_ordered(ws, t, eff)

\* The waiters list re-ordered by current effective priority, highest first,
\* equal priorities keeping their order.
RECURSIVE waiters_sort(_, _)
waiters_sort(ws, eff) ==
    IF ws = <<>> THEN <<>>
    ELSE list_insert_ordered(waiters_sort(SubSeq(ws, 1, Len(ws) - 1), eff), ws[Len(ws)], eff)

\* A sema_down body that never tests the count: it always decrements and
\* goes on.
sema_down_body_unchecked(t, s, waitpc, donepc) ==
    /\ sema_value' = [sema_value EXCEPT ![s] = @ - 1]
    /\ pc' = [pc EXCEPT ![t] = donepc]
    /\ arg' = [arg EXCEPT ![t] = IF donepc = "run" THEN NULL ELSE s]
    /\ UNCHANGED <<waiters, status, ready_list, current>>

\* The body of sema_down, one pass of its loop with interrupts disabled:
\* with a zero count the caller goes into the waiters and blocks (it tests
\* the count again when it next runs); otherwise the count is decremented
\* and the caller goes on at donepc.
sema_down_body(t, s, waitpc, donepc) ==
    IF sema_value[s] = 0
    THEN /\ waiters' = [waiters EXCEPT ![s] =
                          sema_insert_ordered(@, t, EffIn(priority, donations))]
         /\ schedule([status EXCEPT ![t] = "BLOCKED"], ready_list)
         /\ pc' = [pc EXCEPT ![t] = waitpc]
         /\ arg' = [arg EXCEPT ![t] = s]
         /\ UNCHANGED sema_value
    ELSE /\ sema_value' = [sema_value EXCEPT ![s] = @ - 1]
         /\ pc' = [pc EXCEPT ![t] = donepc]
         /\ arg' = [arg EXCEPT ![t] = IF donepc = "run" THEN NULL ELSE s]
         /\ UNCHANGED <<waiters, status, ready_list, current>>

\* A sema_up body that forgets an up made while nobody is waiting: the count
\* is incremented only when a waiter was woken.
sema_up_body_forgetful(s) ==
    IF waiters[s] = <<>>
    THEN UNCHANGED <<waiters, status, ready_list, sema_value>>
    ELSE LET eff == EffIn(priority, donations)
             sorted == waiters_sort(waiters[s], eff)
             w == Head(sorted)
         IN  /\ waiters' = [waiters EXCEPT ![s] = Tail(sorted)]
             /\ status' = [status EXCEPT ![w] = "READY"]
             /\ ready_list' = list_insert_ordered(ready_list, w, eff)
             /\ sema_value' = [sema_value EXCEPT ![s] = @ + 1]

\* A sema_up body that wakes the front of the waiters list as the insertions
\* left it.
sema_up_body_front(s) ==
    /\ IF waiters[s] = <<>>
       THEN UNCHANGED <<waiters, status, ready_list>>
       ELSE LET eff == EffIn(priority, donations)
                w == Head(waiters[s])
            IN  /\ waiters' = [waiters EXCEPT ![s] = Tail(waiters[s])]
                /\ status' = [status EXCEPT ![w] = "READY"]
                /\ ready_list' = list_insert_ordered(ready_list, w, eff)
    /\ sema_value' = [sema_value EXCEPT ![s] = @ + 1]

\* The body of sema_up with interrupts disabled: the highest-priority waiter,
\* if any, is unblocked into the ready list; the count is always incremented.
sema_up_body(s) ==
    /\ IF waiters[s] = <<>>
       THEN UNCHANGED <<waiters, status, ready_list>>
       ELSE LET eff == EffIn(priority, donations)
                sorted == waiters_sort(waiters[s], eff)
                w == Head(sorted)
            IN  /\ waiters' = [waiters EXCEPT ![s] = Tail(sorted)]
                /\ status' = [status EXCEPT ![w] = "READY"]
                /\ ready_list' = list_insert_ordered(ready_list, w, eff)
    /\ sema_value' = [sema_value EXCEPT ![s] = @ + 1]

\* sema_down on the plain semaphore, called by the running thread at
\* position frompc of its program; it continues at donepc.
sema_down(t, frompc, donepc) ==
    /\ Running(t) /\ pc[t] = frompc
    /\ sema_down_body(t, PlainSema, "sema_down", donepc)
    /\ UNCHANGED <<priority, donations, donating_to, held_locks, holder>>
    /\ UNCHANGED <<execution_order, execution_count, cond_waiters, cw, procvars, timervars>>

\* A woken waiter of the plain semaphore runs again and re-tests the count.
sema_down_retry(t, donepc) ==
    /\ Running(t) /\ pc[t] = "sema_down"
    /\ sema_down_body(t, PlainSema, "sema_down", donepc)
    /\ UNCHANGED <<priority, donations, donating_to, held_locks, holder>>
    /\ UNCHANGED <<execution_order, execution_count, cond_waiters, cw, procvars, timervars>>

\* sema_up on the plain semaphore, called by the running thread at position
\* frompc of its program; it continues at topc.
sema_up(t, frompc, topc) ==
    /\ Running(t) /\ pc[t] = frompc
    /\ sema_up_body(PlainSema)
    /\ pc' = [pc EXCEPT ![t] = topc]
    /\ UNCHANGED <<priority, donations, donating_to, held_locks, holder,
                   current, arg>>
    /\ UNCHANGED <<execution_order, execution_count, cond_waiters, cw, procvars, timervars>>

\* ----------------------------------------------------------------- locks
\* Does the chain walk of lock_acquire, started at recipient r, reach a
\* thread that donates to nobody?  A path longer than the number of threads
\* has entered a cycle.
RECURSIVE walk_terminates(_, _, _)
walk_terminates(dt, r, fuel) ==
    IF dt[r] = NULL THEN TRUE
    ELSE IF fuel = 0 THEN FALSE
    ELSE walk_terminates(dt, dt[r], fuel - 1)

\* lock_acquire up to intr_set_level: with interrupts disabled, when the lock
\* has a holder the caller inserts its donation into the holder's list, sets
\* donating_to and walks the chain.  A walk that never reaches the end of
\* the chain spins with interrupts disabled.
lock_acquire(t, l) ==
    /\ Running(t) /\ pc[t] = "run"
    /\ holder[l] # t
    /\ arg' = [arg EXCEPT ![t] = l]
    /\ IF holder[l] = NULL
       THEN /\ pc' = [pc EXCEPT ![t] = "acq_sema"]
            /\ UNCHANGED <<donations, donating_to>>
       ELSE LET h == holder[l]
                d == [donated_priority |-> thread_get_priority(t), donor |-> t, lock |-> l]
                inserted == [donations EXCEPT ![h] = donation_insert_ordered(@, d)]
                dt == [donating_to EXCEPT ![t] = h]
            IN  /\ donating_to' = dt
                /\ IF walk_terminates(dt, h, NumThreads)
                   THEN /\ donations' = donate_chain(inserted, dt, h, d.donated_priority)
                        /\ pc' = [pc EXCEPT ![t] = "acq_sema"]
                   ELSE /\ donations' = inserted
                        /\ pc' = [pc EXCEPT ![t] = "acq_walk_forever"]
    /\ UNCHANGED <<status, priority, held_locks, holder, sema_value, waiters,
                   ready_list, current>>
    /\ UNCHANGED <<execution_order, execution_count, cond_waiters, cw, procvars, timervars>>

\* lock_acquire: sema_down(&lock->semaphore), the first test of the count.
lock_acquire_sema_down(t) ==
    /\ Running(t) /\ pc[t] = "acq_sema"
    /\ sema_down_body(t, arg[t], "acq_wait", "acq_holder")
    /\ UNCHANGED <<priority, donations, donating_to, held_locks, holder>>
    /\ UNCHANGED <<execution_order, execution_count, cond_waiters, cw, procvars, timervars>>

\* lock_acquire: a woken waiter runs again inside sema_down and tests the
\* count again.
lock_acquire_sema_retry(t) ==
    /\ Running(t) /\ pc[t] = "acq_wait"
    /\ sema_down_body(t, arg[t], "acq_wait", "acq_holder")
    /\ UNCHANGED <<priority, donations, donating_to, held_locks, holder>>
    /\ UNCHANGED <<execution_order, execution_count, cond_waiters, cw, procvars, timervars>>

\* lock_acquire: lock->holder = current.
lock_acquire_set_holder(t) ==
    /\ Running(t) /\ pc[t] = "acq_holder"
    /\ holder' = [holder EXCEPT ![arg[t]] = t]
    /\ pc' = [pc EXCEPT ![t] = "acq_clear"]
    /\ UNCHANGED <<status, priority, donations, donating_to, held_locks,
                   sema_value, waiters, ready_list, current, arg>>
    /\ UNCHANGED <<execution_order, execution_count, cond_waiters, cw, procvars, timervars>>

\* lock_acquire: current->donating_to = NULL, then
\* list_push_back(&current->held_locks, &lock->elem).
lock_acquire_finish(t) ==
    /\ Running(t) /\ pc[t] = "acq_clear"
    /\ donating_to' = [donating_to EXCEPT ![t] = NULL]
    /\ held_locks' = [held_locks EXCEPT ![t] = Append(@, arg[t])]
    /\ pc' = [pc EXCEPT ![t] = "run"]
    /\ arg' = [arg EXCEPT ![t] = NULL]
    /\ UNCHANGED <<status, priority, donations, holder,
                   sema_value, waiters, ready_list, current>>
    /\ UNCHANGED <<execution_order, execution_count, cond_waiters, cw, procvars, timervars>>

\* A removal loop that drops every donation, whatever its lock.
remove_donations_any_lock(s, l) == <<>>

\* The donations of list s that are not tied to lock l, in their order.
remove_donations_for_lock(s, l) ==
    LET keep == {i \in 1..Len(s) : s[i].lock # l}
        F[i \in 0..Len(s)] ==
            IF i = 0 THEN <<>>
            ELSE IF i \in keep THEN Append(F[i - 1], s[i]) ELSE F[i - 1]
    IN  F[Len(s)]

\* list_remove(&lock->elem): the lock leaves the held_locks list it is in.
remove_lock(s, l) ==
    LET F[i \in 0..Len(s)] ==
            IF i = 0 THEN <<>>
            ELSE IF s[i] # l THEN Append(F[i - 1], s[i]) ELSE F[i - 1]
    IN  F[Len(s)]

\* lock_release up to intr_set_level: with interrupts disabled the lock
\* leaves held_locks, every donation tied to it leaves the caller's list,
\* and the holder is cleared.
lock_release(t, l) ==
    /\ Running(t) /\ pc[t] = "run"
    /\ holder[l] = t
    /\ held_locks' = [held_locks EXCEPT ![t] = remove_lock(@, l)]
    /\ donations' = [donations EXCEPT ![t] = remove_donations_for_lock(@, l)]
    /\ holder' = [holder EXCEPT ![l] = NULL]
    /\ pc' = [pc EXCEPT ![t] = "rel_sema_up"]
    /\ arg' = [arg EXCEPT ![t] = l]
    /\ UNCHANGED <<status, priority, donating_to, sema_value, waiters,
                   ready_list, current>>
    /\ UNCHANGED <<execution_order, execution_count, cond_waiters, cw, procvars, timervars>>

\* lock_release: sema_up(&lock->semaphore).
lock_release_sema_up(t) ==
    /\ Running(t) /\ pc[t] = "rel_sema_up"
    /\ sema_up_body(arg[t])
    /\ pc' = [pc EXCEPT ![t] = "rel_yield"]
    /\ UNCHANGED <<priority, donations, donating_to, held_locks, holder,
                   current, arg>>
    /\ UNCHANGED <<execution_order, execution_count, cond_waiters, cw, procvars, timervars>>

\* lock_release: yield when the front of the ready list has a higher
\* effective priority than the caller.
lock_release_yield_check(t) ==
    /\ Running(t) /\ pc[t] = "rel_yield"
    /\ pc' = [pc EXCEPT ![t] = "run"]
    /\ arg' = [arg EXCEPT ![t] = NULL]
    /\ IF /\ ready_list # <<>>
          /\ thread_get_priority(t) < thread_get_priority(Head(ready_list))
       THEN do_yield(t, EffIn(priority, donations))
       ELSE UNCHANGED <<status, ready_list, current>>
    /\ UNCHANGED <<priority, donations, donating_to, held_locks, holder,
                   sema_value, waiters>>
    /\ UNCHANGED <<execution_order, execution_count, cond_waiters, cw, procvars, timervars>>

\* The threads created so far.
Live == {t \in Threads : status[t] # "NONE"}

Next ==
    \/ \E t \in Threads, p \in Priorities :
          Cardinality(Live) < MaxLive /\ thread_create(t, p)
    \/ \E t \in Threads : thread_yield(t)
    \/ \E t \in Threads, p \in Priorities : thread_set_priority(t, p)
    \/ \E t \in Threads, l \in Locks : lock_acquire(t, l)
    \/ \E t \in Threads : lock_acquire_sema_down(t)
    \/ \E t \in Threads : lock_acquire_sema_retry(t)
    \/ \E t \in Threads : lock_acquire_set_holder(t)
    \/ \E t \in Threads : lock_acquire_finish(t)
    \/ \E t \in Threads, l \in Locks : lock_release(t, l)
    \/ \E t \in Threads : lock_release_sema_up(t)
    \/ \E t \in Threads : lock_release_yield_check(t)
    \/ timer_tick

Spec == Init /\ [][Next]_vars

\* ------------------------------------------- priority-inversion scenario
\* One lock and three threads: L (thread 1, priority 10) creates M (priority
\* 30) and H (priority 60), in either order, and acquires and releases the
\* lock; H acquires and releases the lock; M computes forever and never blocks
\* or yields.  A thread that holds the lock does nothing but release it.
\* Every kernel step is the step of the general specification.
InvLock == 1

InvInit == Init /\ priority[1] = 10

inv_create ==
    \E p \in {30, 60} :
        /\ \A t \in Threads : status[t] # "NONE" => priority[t] # p
        /\ holder[InvLock] # 1
        /\ Cardinality({t \in Threads : status[t] # "NONE"}) < 3
        /\ thread_create(1, p)

inv_acquire ==
    \E t \in Threads : priority[t] # 30 /\ lock_acquire(t, InvLock)

inv_release ==
    \E t \in Threads : lock_release(t, InvLock)

inv_acquire_sema_down == \E t \in Threads : lock_acquire_sema_down(t)

inv_acquire_sema_retry == \E t \in Threads : lock_acquire_sema_retry(t)

inv_acquire_set_holder == \E t \in Threads : lock_acquire_set_holder(t)

inv_acquire_finish == \E t \in Threads : lock_acquire_finish(t)

inv_release_sema_up == \E t \in Threads : lock_release_sema_up(t)

inv_release_yield_check == \E t \in Threads : lock_release_yield_check(t)

\* The instructions of the running thread.
InvCpu ==
    \/ inv_create
    \/ inv_acquire
    \/ inv_release
    \/ inv_acquire_sema_down
    \/ inv_acquire_sema_retry
    \/ inv_acquire_set_holder
    \/ inv_acquire_finish
    \/ inv_release_sema_up
    \/ inv_release_yield_check

InvNext == InvCpu \/ timer_tick

\* The processor always executes the running thread's next instruction, and
\* the timer keeps ticking.
SpecInversion ==
    InvInit /\ [][InvNext]_vars /\ WF_vars(InvCpu) /\ WF_vars(timer_tick)

\* --------------------------------------------------- condition variables
\* The position of a thread inside cond_wait is cw together with the lock
\* being or not being in its held_locks: "release" with the lock held is
\* before lock_release, "release" without it is before sema_down,
\* "sema_down" without the lock is before lock_acquire, and "sema_down" with
\* the lock held again is the return.

\* cond_wait, called with the lock held: the caller's condition_waiter, its
\* semaphore initialised to 0, goes into the condition's waiters in
\* priority order (condition_insert_ordered).
cond_wait(t, l) ==
    /\ Running(t) /\ pc[t] = "run" /\ cw[t] = "none"
    /\ holder[l] = t /\ l \in Range(held_locks[t])
    /\ sema_value' = [sema_value EXCEPT ![WaitSema(t)] = 0]
    /\ cond_waiters' = list_insert_ordered(cond_waiters, t, EffIn(priority, donations))
    /\ cw' = [cw EXCEPT ![t] = "release"]
    /\ UNCHANGED <<status, priority, donations, donating_to, held_locks, holder,
                   waiters, ready_list, current, pc, arg,
                   execution_order, execution_count, procvars, timervars>>

\* cond_wait: lock_release(lock).
cond_wait_release(t, l) ==
    /\ cw[t] = "release" /\ l \in Range(held_locks[t])
    /\ lock_release(t, l)

\* cond_wait: sema_down(&waiter.semaphore), the first test of the count.
cond_wait_sema_down(t, l) ==
    /\ Running(t) /\ pc[t] = "run"
    /\ cw[t] = "release" /\ l \notin Range(held_locks[t])
    /\ sema_down_body(t, WaitSema(t), "cw_wait", "run")
    /\ cw' = [cw EXCEPT ![t] = "sema_down"]
    /\ UNCHANGED <<priority, donations, donating_to, held_locks, holder,
                   execution_order, execution_count, cond_waiters, procvars, timervars>>

\* cond_wait: the woken caller tests the count of its semaphore again.
cond_wait_sema_retry(t) ==
    /\ Running(t) /\ pc[t] = "cw_wait"
    /\ sema_down_body(t, WaitSema(t), "cw_wait", "run")
    /\ UNCHANGED <<priority, donations, donating_to, held_locks, holder,
                   execution_order, execution_count, cond_waiters, cw, procvars, timervars>>

\* cond_wait: lock_acquire(lock).
cond_wait_reacquire(t, l) ==
    /\ cw[t] = "sema_down" /\ l \notin Range(held_locks[t])
    /\ lock_acquire(t, l)

\* A cond_wait that returns as soon as its semaphore has been downed,
\* without waiting for the lock.
cond_wait_return_early(t, l) ==
    /\ Running(t) /\ pc[t] = "run"
    /\ cw[t] = "sema_down"
    /\ cw' = [cw EXCEPT ![t] = "none"]
    /\ UNCHANGED <<status, priority, donations, donating_to, held_locks, holder,
                   sema_value, waiters, ready_list, current, pc, arg,
                   execution_order, execution_count, cond_waiters, procvars, timervars>>

\* cond_wait returns.
cond_wait_return(t, l) ==
    /\ Running(t) /\ pc[t] = "run"
    /\ cw[t] = "sema_down" /\ l \in Range(held_locks[t])
    /\ cw' = [cw EXCEPT ![t] = "none"]
    /\ UNCHANGED <<status, priority, donations, donating_to, held_locks, holder,
                   sema_value, waiters, ready_list, current, pc, arg,
                   execution_order, execution_count, cond_waiters, procvars, timervars>>

\* A signal body that wakes the waiter of lowest effective priority.
cond_signal_body_lowest ==
    IF cond_waiters = <<>>
    THEN UNCHANGED <<cond_waiters, sema_value, waiters, status, ready_list>>
    ELSE LET low == CHOOSE w \in Range(cond_waiters) :
                       \A r \in Range(cond_waiters) :
                           thread_get_priority(w) <= thread_get_priority(r)
             rest == SelectSeq(cond_waiters, LAMBDA r : r # low)
         IN  /\ cond_waiters' = rest
             /\ sema_up_body(WaitSema(low))

\* The body of cond_signal: when the condition has waiters, the one of
\* highest effective priority leaves the list and its semaphore is upped;
\* otherwise nothing changes.
cond_signal_body ==
    IF cond_waiters = <<>>
    THEN UNCHANGED <<cond_waiters, sema_value, waiters, status, ready_list>>
    ELSE LET sorted == waiters_sort(cond_waiters, EffIn(priority, donations))
         IN  /\ cond_waiters' = Tail(sorted)
             /\ sema_up_body(WaitSema(Head(sorted)))

\* cond_signal, called with the lock held.
cond_signal(t, l) ==
    /\ Running(t) /\ pc[t] = "run" /\ cw[t] = "none"
    /\ holder[l] = t /\ l \in Range(held_locks[t])
    /\ cond_signal_body
    /\ UNCHANGED <<priority, donations, donating_to, held_locks, holder,
                   current, pc, arg, execution_order, execution_count, cw, procvars, timervars>>

\* cond_broadcast, called with the lock held: the caller enters the loop
\* while (!list_empty(&cond->waiters)) cond_signal(cond, lock).
cond_broadcast(t, l) ==
    /\ Running(t) /\ pc[t] = "run" /\ cw[t] = "none"
    /\ holder[l] = t /\ l \in Range(held_locks[t])
    /\ pc' = [pc EXCEPT ![t] = "bc_loop"]
    /\ UNCHANGED <<status, priority, donations, donating_to, held_locks, holder,
                   sema_value, waiters, ready_list, current, arg,
                   execution_order, execution_count, cond_waiters, cw, procvars, timervars>>

\* A cond_broadcast that signals once and returns.
cond_broadcast_step_once(t) ==
    /\ Running(t) /\ pc[t] = "bc_loop"
    /\ cond_signal_body
    /\ pc' = [pc EXCEPT ![t] = "run"]
    /\ UNCHANGED <<priority, donations, donating_to, held_locks, holder,
                   current, arg, execution_order, execution_count, cw, procvars, timervars>>

\* One pass of the loop of cond_broadcast: a signal while the condition has
\* waiters, the return when it has none.
cond_broadcast_step(t) ==
    /\ Running(t) /\ pc[t] = "bc_loop"
    /\ cond_signal_body
    /\ pc' = [pc EXCEPT ![t] = IF cond_waiters = <<>> THEN "run" ELSE "bc_loop"]
    /\ UNCHANGED <<priority, donations, donating_to, held_locks, holder,
                   current, arg, execution_order, execution_count, cw, procvars, timervars>>

\* One lock, one condition and up to MaxLive threads of any priorities:
\* every thread may acquire and release the lock and, while holding it, call
\* cond_wait, cond_signal and cond_broadcast.
cv_create ==
    \E t \in Threads, p \in Priorities :
        Cardinality(Live) < MaxLive /\ thread_create(t, p)

cv_acquire == \E t \in Threads : cw[t] = "none" /\ lock_acquire(t, InvLock)

cv_release == \E t \in Threads : cw[t] = "none" /\ lock_release(t, InvLock)

cv_wait == \E t \in Threads : cond_wait(t, InvLock)

cv_wait_release == \E t \in Threads : cond_wait_release(t, InvLock)

cv_wait_sema_down == \E t \in Threads : cond_wait_sema_down(t, InvLock)

cv_wait_sema_retry == \E t \in Threads : cond_wait_sema_retry(t)

cv_wait_reacquire == \E t \in Threads : cond_wait_reacquire(t, InvLock)

cv_wait_return == \E t \in Threads : cond_wait_return(t, InvLock)

cv_signal == \E t \in Threads : cond_signal(t, InvLock)

cv_broadcast == \E t \in Threads : cond_broadcast(t, InvLock)

cv_broadcast_step == \E t \in Threads : cond_broadcast_step(t)

CondNext ==
    \/ cv_create
    \/ cv_acquire
    \/ cv_release
    \/ cv_wait
    \/ cv_wait_release
    \/ cv_wait_sema_down
    \/ cv_wait_sema_retry
    \/ cv_wait_reacquire
    \/ cv_wait_return
    \/ cv_signal
    \/ cv_broadcast
    \/ cv_broadcast_step
    \/ inv_acquire_sema_down
    \/ inv_acquire_sema_retry
    \/ inv_acquire_set_holder
    \/ inv_acquire_finish
    \/ inv_release_sema_up
    \/ inv_release_yield_check
    \/ timer_tick

SpecCond == InvInit /\ [][CondNext]_vars

\* ---------------------------------------------------- lock misuse scenario
\* lock_acquire called by the thread that already holds the lock.  The code
\* has no check for it: holder is not NULL, so the caller inserts a donation
\* into its own list and sets donating_to to itself, and the chain walk then
\* follows donating_to from the caller to the caller without end, with
\* interrupts disabled.
lock_acquire_by_holder(t, l) ==
    /\ Running(t) /\ pc[t] = "run"
    /\ holder[l] = t
    /\ arg' = [arg EXCEPT ![t] = l]
    /\ LET d == [donated_priority |-> thread_get_priority(t), donor |-> t, lock |-> l]
       IN  donations' = [donations EXCEPT ![t] = donation_insert_ordered(@, d)]
    /\ donating_to' = [donating_to EXCEPT ![t] = t]
    /\ pc' = [pc EXCEPT ![t] = "acq_walk_forever"]
    /\ UNCHANGED <<status, priority, held_locks, holder, sema_value, waiters,
                   ready_list, current, execution_order, execution_count, cond_waiters, cw, procvars, timervars>>

\* lock_release called by a thread that is not the holder, on a lock that is
\* in its holder's held_locks.  The code has no check for it: the lock is
\* unlinked from the list it is in, the caller's donations tied to it are
\* removed, and the holder is cleared; sema_up and the yield check follow.
lock_release_by_other(t, l) ==
    /\ Running(t) /\ pc[t] = "run"
    /\ holder[l] \in Threads \ {t}
    /\ l \in Range(held_locks[holder[l]])
    /\ held_locks' = [held_locks EXCEPT ![holder[l]] = remove_lock(@, l)]
    /\ donations' = [donations EXCEPT ![t] = remove_donations_for_lock(@, l)]
    /\ holder' = [holder EXCEPT ![l] = NULL]
    /\ pc' = [pc EXCEPT ![t] = "rel_sema_up"]
    /\ arg' = [arg EXCEPT ![t] = l]
    /\ UNCHANGED <<status, priority, donating_to, sema_value, waiters,
                   ready_list, current, execution_order, execution_count, cond_waiters, cw, procvars, timervars>>

\* One lock and up to MaxLive threads of any priorities; every thread may
\* call lock_acquire and lock_release on the lock whether or not it holds
\* it, a thread that is not the holder calling lock_release only while the
\* holder has received no donation (donations left behind by such a release
\* would otherwise pile up without bound).  Every other kernel step is the
\* step of the general specification.
mis_create ==
    \E t \in Threads, p \in Priorities :
        Cardinality(Live) < MaxLive /\ thread_create(t, p)

mis_acquire == \E t \in Threads : lock_acquire(t, InvLock)

mis_acquire_by_holder == \E t \in Threads : lock_acquire_by_holder(t, InvLock)

mis_release_by_other ==
    \E t \in Threads :
        /\ \A u \in Threads : donations[u] = <<>>
        /\ lock_release_by_other(t, InvLock)

MisNext ==
    \/ mis_create
    \/ mis_acquire
    \/ mis_acquire_by_holder
    \/ mis_release_by_other
    \/ inv_release
    \/ inv_acquire_sema_down
    \/ inv_acquire_sema_retry
    \/ inv_acquire_set_holder
    \/ inv_acquire_finish
    \/ inv_release_sema_up
    \/ inv_release_yield_check
    \/ timer_tick

SpecMisuse == InvInit /\ [][MisNext]_vars

\* ------------------------------------------- priority-lowering scenario
\* One lock and four threads: thread 1 (priority 10) takes the lock and
\* creates the three other threads with any priorities; once all exist every
\* thread may acquire and release the lock, and a thread that holds no lock
\* may lower its own base priority.  Every kernel step is the step of the
\* general specification.
low_create ==
    \E p \in Priorities : holder[InvLock] = 1 /\ thread_create(1, p)

low_set_priority ==
    \E t \in Threads \ {1}, p \in Priorities :
        /\ p < priority[t]
        /\ held_locks[t] = <<>>
        /\ thread_set_priority(t, p)

low_acquire ==
    \E t \in Threads :
        /\ t = 1 \/ Cardinality(Live) = NumThreads
        /\ lock_acquire(t, InvLock)

LowNext ==
    \/ low_create
    \/ low_set_priority
    \/ low_acquire
    \/ inv_release
    \/ inv_acquire_sema_down
    \/ inv_acquire_sema_retry
    \/ inv_acquire_set_holder
    \/ inv_acquire_finish
    \/ inv_release_sema_up
    \/ inv_release_yield_check
    \/ timer_tick

SpecLowering == InvInit /\ [][LowNext]_vars

\* ------------------------------------------ tests/threads/priority-basic.c
\* test_priority_basic, the semaphore version: the main thread (thread 1,
\* priority PRI_DEFAULT) creates the low, medium and high thread, in any
\* order, calls sema_up four times and then yields in a loop; each created
\* thread calls sema_down, records its priority in execution_order and
\* returns.  The timer may tick at any point.
PRI_DEFAULT == 31

TestPriorities == {PRI_DEFAULT + 1, PRI_DEFAULT + 2, PRI_DEFAULT + 3}

\* Positions of the main thread before and after each of its sema_up calls.
UpPcs == <<"run", "up_1", "up_2", "up_3", "yield_loop">>

BasicInit ==
    /\ ProcInit
    /\ TimerInit
    /\ status = [t \in Threads |-> IF t = 1 THEN "RUNNING" ELSE "NONE"]
    /\ priority = [t \in Threads |-> PRI_DEFAULT]
    /\ donations = [t \in Threads |-> <<>>]
    /\ donating_to = [t \in Threads |-> NULL]
    /\ held_locks = [t \in Threads |-> <<>>]
    /\ holder = [l \in Locks |-> NULL]
    /\ sema_value = [s \in Semas |-> IF s \in Locks THEN 1 ELSE 0]
    /\ waiters = [s \in Semas |-> <<>>]
    /\ ready_list = <<>>
    /\ current = 1
    /\ pc = [t \in Threads |-> "run"]
    /\ arg = [t \in Threads |-> NULL]
    /\ execution_order = <<-1, -1, -1>>
    /\ execution_count = 0
    /\ cond_waiters = <<>>
    /\ cw = [t \in Threads |-> "none"]

\* thread_create("low" / "medium" / "high", PRI_DEFAULT + 1 / 2 / 3, ...).
basic_create ==
    \E p \in TestPriorities :
        /\ \A t \in Live \ {1} : priority[t] # p
        /\ thread_create(1, p)

\* The four sema_up(&start_sema) of the main thread, after the creations.
basic_sema_up ==
    \E k \in 1..(Len(UpPcs) - 1) :
        /\ Cardinality(Live) = 1 + Cardinality(TestPriorities)
        /\ sema_up(1, UpPcs[k], UpPcs[k + 1])

\* for (i = 0; i < 1000; i++) thread_yield();
basic_yield ==
    /\ Running(1) /\ pc[1] = "yield_loop"
    /\ do_yield(1, EffIn(priority, donations))
    /\ UNCHANGED <<priority, donations, donating_to, held_locks, holder,
                   sema_value, waiters, pc, arg, execution_order, execution_count, cond_waiters, cw, procvars, timervars>>

\* sema_down(&start_sema) at the start of each created thread.
basic_sema_down == \E t \in Threads \ {1} : sema_down(t, "run", "record")

basic_sema_down_retry == \E t \in Threads \ {1} : sema_down_retry(t, "record")

\* execution_order[execution_count++] = thread_get_priority(): the index is
\* read, the priority is stored, the incremented count is written back.
basic_record_index ==
    \E t \in Threads \ {1} :
        /\ Running(t) /\ pc[t] = "record"
        /\ arg' = [arg EXCEPT ![t] = execution_count]
        /\ pc' = [pc EXCEPT ![t] = "record_store"]
        /\ UNCHANGED <<status, priority, donations, donating_to, held_locks,
                       holder, sema_value, waiters, ready_list, current,
                       execution_order, execution_count, cond_waiters, cw, procvars, timervars>>

basic_record_store ==
    \E t \in Threads \ {1} :
        /\ Running(t) /\ pc[t] = "record_store"
        /\ execution_order' =
              [execution_order EXCEPT ![arg[t] + 1] = thread_get_priority(t)]
        /\ pc' = [pc EXCEPT ![t] = "record_count"]
        /\ UNCHANGED <<status, priority, donations, donating_to, held_locks,
                       holder, sema_value, waiters, ready_list, current, arg,
                       execution_count, cond_waiters, cw, procvars, timervars>>

basic_record_count ==
    \E t \in Threads \ {1} :
        /\ Running(t) /\ pc[t] = "record_count"
        /\ execution_count' = arg[t] + 1
        /\ pc' = [pc EXCEPT ![t] = "fn_return"]
        /\ arg' = [arg EXCEPT ![t] = NULL]
        /\ UNCHANGED <<status, priority, donations, donating_to, held_locks,
                       holder, sema_value, waiters, ready_list, current,
                       execution_order, cond_waiters, cw, procvars, timervars>>

\* The thread function returns and the thread exits.
basic_exit == \E t \in Threads \ {1} : thread_exit(t)

BasicNext ==
    \/ basic_create
    \/ basic_sema_up
    \/ basic_yield
    \/ basic_sema_down
    \/ basic_sema_down_retry
    \/ basic_record_index
    \/ basic_record_store
    \/ basic_record_count
    \/ basic_exit
    \/ timer_tick

SpecBasic == BasicInit /\ [][BasicNext]_vars

\* ---------------------------------------------------------- process layer
\* exec / wait / exit of the userprog design: one parent process (the main
\* thread) with its children list and children_lock; the pid of a child is
\* its thread.  The position of a thread inside process_execute,
\* process_wait and process_exit is proc[t].at together with children_lock
\* being or not being in its held_locks (before or after the lock_acquire /
\* lock_release that the position names).

\* The parent's children_lock.
children_lock == 1

\* load_sema of process_execute, on the parent's stack.
load_sema == PlainSema

\* exit_sema of the child_info of child c.
exit_sema(c) == PlainSema + c

\* Arguments of sys_exit; -1 is also the status of a process killed by the
\* kernel.
ExitStatuses == {-1, 0, 1}

HoldsChildrenLock(t) == children_lock \in Range(held_locks[t])

\* The user code of t runs: t is in no kernel operation.
InUserCode(t) == Running(t) /\ pc[t] = "run" /\ cw[t] = "none"

\* process_execute: sema_init(&load_sema, 0), load_success = false; the
\* tid that thread_create is going to return is the lowest unused slot.
process_execute(p) ==
    /\ InUserCode(p) /\ proc[p].at = "none"
    /\ \E n \in Threads :
         /\ status[n] = "NONE"
         /\ \A m \in Threads : status[m] = "NONE" => n <= m
         /\ proc' = [proc EXCEPT ![p] =
                        [@ EXCEPT !.at = "pe_create", !.pid = n, !.load_success = FALSE]]
    /\ sema_value' = [sema_value EXCEPT ![load_sema] = 0]
    /\ UNCHANGED <<status, priority, donations, donating_to, held_locks, holder,
                   waiters, ready_list, current, pc, arg,
                   execution_order, execution_count, cond_waiters, cw,
                   child_info, wait_log, timervars>>

\* process_execute: thread_create(file_name, PRI_DEFAULT, start_process, &load_info).
process_execute_create(p) ==
    /\ proc[p].at = "pe_create" /\ status[proc[p].pid] = "NONE"
    /\ thread_create(p, PRI_DEFAULT)

\* process_execute: sema_down(&load_sema), the first test of the count.
process_execute_sema_down(p) ==
    /\ InUserCode(p)
    /\ proc[p].at = "pe_create" /\ status[proc[p].pid] # "NONE"
    /\ sema_down_body(p, load_sema, "pe_wait", "run")
    /\ proc' = [proc EXCEPT ![p].at = "pe_loaded"]
    /\ UNCHANGED <<priority, donations, donating_to, held_locks, holder,
                   execution_order, execution_count, cond_waiters, cw,
                   child_info, wait_log, timervars>>

\* process_execute: the woken parent tests the count of load_sema again.
process_execute_sema_retry(p) ==
    /\ Running(p) /\ pc[p] = "pe_wait"
    /\ sema_down_body(p, load_sema, "pe_wait", "run")
    /\ UNCHANGED <<priority, donations, donating_to, held_locks, holder,
                   execution_order, execution_count, cond_waiters, cw, procvars, timervars>>

\* process_execute: load_success ? tid : -1; after a successful creation
\* the parent goes on to record the child.
process_execute_check(p) ==
    /\ InUserCode(p) /\ proc[p].at = "pe_loaded"
    /\ proc' = [proc EXCEPT ![p] =
                   IF proc[p].load_success
                   THEN [@ EXCEPT !.at = "pe_info", !.ret = proc[p].pid]
                   ELSE [@ EXCEPT !.at = "none", !.ret = -1]]
    /\ UNCHANGED <<status, priority, donations, donating_to, held_locks, holder,
                   sema_value, waiters, ready_list, current, pc, arg,
                   execution_order, execution_count, cond_waiters, cw,
                   child_info, wait_log, timervars>>

\* Process Creation 1: acquire the parent's children_lock.
process_execute_acquire(p) ==
    /\ proc[p].at = "pe_info" /\ ~HoldsChildrenLock(p)
    /\ lock_acquire(p, children_lock)

\* Process Creation 1: the child_info (exit_status = -1, has_exited = false,
\* has_been_waited = false, sema_init(&exit_sema, 0)) is added to the
\* parent's children list.
process_execute_add(p) ==
    /\ InUserCode(p) /\ proc[p].at = "pe_info" /\ HoldsChildrenLock(p)
    /\ child_info' = [child_info EXCEPT ![proc[p].pid] = [NoChild EXCEPT !.listed = TRUE]]
    /\ sema_value' = [sema_value EXCEPT ![exit_sema(proc[p].pid)] = 0]
    /\ proc' = [proc EXCEPT ![p].at = "pe_release"]
    /\ UNCHANGED <<status, priority, donations, donating_to, held_locks, holder,
                   waiters, ready_list, current, pc, arg,
                   execution_order, execution_count, cond_waiters, cw, wait_log, timervars>>

\* Process Creation 1: release children_lock.
process_execute_release(p) ==
    /\ proc[p].at = "pe_release" /\ HoldsChildrenLock(p)
    /\ lock_release(p, children_lock)

\* process_execute returns the tid.
process_execute_return(p) ==
    /\ InUserCode(p) /\ proc[p].at = "pe_release" /\ ~HoldsChildrenLock(p)
    /\ proc' = [proc EXCEPT ![p].at = "none"]
    /\ UNCHANGED <<status, priority, donations, donating_to, held_locks, holder,
                   sema_value, waiters, ready_list, current, pc, arg,
                   execution_order, execution_count, cond_waiters, cw,
                   child_info, wait_log, timervars>>

\* start_process in the child: pcb->parent is set, the executable is loaded
\* (the local success) and the result written to the parent's load_success.
start_process(c) ==
    /\ InUserCode(c) /\ proc[c].at = "none"
    /\ \E p \in Threads \ {c}, success \in BOOLEAN :
         /\ proc[p].at \in {"pe_create", "pe_loaded"} /\ proc[p].pid = c
         /\ proc' = [proc EXCEPT ![c] = [@ EXCEPT !.at = "start_up", !.parent = p,
                                                   !.load_success = success],
                                 ![p] = [@ EXCEPT !.load_success = success]]
    /\ UNCHANGED <<status, priority, donations, donating_to, held_locks, holder,
                   sema_value, waiters, ready_list, current, pc, arg,
                   execution_order, execution_count, cond_waiters, cw,
                   child_info, wait_log, timervars>>

\* A start_process that signals the parent only after a successful load.
start_process_sema_up_on_success(c) ==
    /\ InUserCode(c) /\ proc[c].at = "start_up"
    /\ IF proc[c].load_success
       THEN sema_up_body(load_sema)
       ELSE UNCHANGED <<sema_value, waiters, status, ready_list>>
    /\ proc' = [proc EXCEPT ![c].at =
                   IF proc[c].load_success THEN "user" ELSE "load_failed"]
    /\ UNCHANGED <<priority, donations, donating_to, held_locks, holder,
                   current, pc, arg,
                   execution_order, execution_count, cond_waiters, cw,
                   child_info, wait_log, timervars>>

\* start_process: sema_up(info->load_sema); the child goes on to user mode
\* or, when the load failed, to thread_exit.
start_process_sema_up(c) ==
    /\ InUserCode(c) /\ proc[c].at = "start_up"
    /\ sema_up_body(load_sema)
    /\ proc' = [proc EXCEPT ![c].at =
                   IF proc[c].load_success THEN "user" ELSE "load_failed"]
    /\ UNCHANGED <<priority, donations, donating_to, held_locks, holder,
                   current, pc, arg,
                   execution_order, execution_count, cond_waiters, cw,
                   child_info, wait_log, timervars>>

\* start_process: thread_exit after a failed load.
start_process_exit(c) ==
    /\ InUserCode(c) /\ proc[c].at = "load_failed"
    /\ schedule([status EXCEPT ![c] = "DYING"], ready_list)
    /\ proc' = [proc EXCEPT ![c].at = "exited"]
    /\ UNCHANGED <<priority, donations, donating_to, held_locks, holder,
                   sema_value, waiters, pc, arg,
                   execution_order, execution_count, cond_waiters, cw,
                   child_info, wait_log, timervars>>

\* syscall_exit(status), or the kernel killing the process (status -1):
\* the exit status is stored and process_exit is entered.
syscall_exit(c, st) ==
    /\ InUserCode(c) /\ proc[c].at = "user"
    /\ proc' = [proc EXCEPT ![c] = [@ EXCEPT !.at = "px_acquire", !.status = st]]
    /\ UNCHANGED <<status, priority, donations, donating_to, held_locks, holder,
                   sema_value, waiters, ready_list, current, pc, arg,
                   execution_order, execution_count, cond_waiters, cw,
                   child_info, wait_log, timervars>>

\* process_exit 1: acquire parent->children_lock.
process_exit_acquire(c) ==
    /\ proc[c].at = "px_acquire" /\ ~HoldsChildrenLock(c)
    /\ lock_acquire(c, children_lock)

\* process_exit 1: search the parent's children list for the own pid.
process_exit_search(c) ==
    /\ InUserCode(c) /\ proc[c].at = "px_acquire" /\ HoldsChildrenLock(c)
    /\ proc' = [proc EXCEPT ![c].at = IF child_info[c].listed THEN "px_status" ELSE "px_release"]
    /\ UNCHANGED <<status, priority, donations, donating_to, held_locks, holder,
                   sema_value, waiters, ready_list, current, pc, arg,
                   execution_order, execution_count, cond_waiters, cw,
                   child_info, wait_log, timervars>>

\* process_exit 1: child_info->exit_status = status.
process_exit_set_status(c) ==
    /\ InUserCode(c) /\ proc[c].at = "px_status"
    /\ child_info' = [child_info EXCEPT ![c].exit_status = proc[c].status]
    /\ proc' = [proc EXCEPT ![c].at = "px_exited"]
    /\ UNCHANGED <<status, priority, donations, donating_to, held_locks, holder,
                   sema_value, waiters, ready_list, current, pc, arg,
                   execution_order, execution_count, cond_waiters, cw, wait_log, timervars>>

\* process_exit 1: child_info->has_exited = true.
process_exit_set_exited(c) ==
    /\ InUserCode(c) /\ proc[c].at = "px_exited"
    /\ child_info' = [child_info EXCEPT ![c].has_exited = TRUE]
    /\ proc' = [proc EXCEPT ![c].at = "px_sema_up"]
    /\ UNCHANGED <<status, priority, donations, donating_to, held_locks, holder,
                   sema_value, waiters, ready_list, current, pc, arg,
                   execution_order, execution_count, cond_waiters, cw, wait_log, timervars>>

\* process_exit 1: sema_up(&child_info->exit_sema).
process_exit_sema_up(c) ==
    /\ InUserCode(c) /\ proc[c].at = "px_sema_up"
    /\ sema_up_body(exit_sema(c))
    /\ proc' = [proc EXCEPT ![c].at = "px_release"]
    /\ UNCHANGED <<priority, donations, donating_to, held_locks, holder,
                   current, pc, arg,
                   execution_order, execution_count, cond_waiters, cw,
                   child_info, wait_log, timervars>>

\* process_exit 1: release parent->pcb->children_lock.
process_exit_release(c) ==
    /\ proc[c].at = "px_release" /\ HoldsChildrenLock(c)
    /\ lock_release(c, children_lock)

\* process_exit 3 and the end of the thread: the child has no children of
\* its own to clean up.
process_exit_finish(c) ==
    /\ InUserCode(c) /\ proc[c].at = "px_release" /\ ~HoldsChildrenLock(c)
    /\ schedule([status EXCEPT ![c] = "DYING"], ready_list)
    /\ proc' = [proc EXCEPT ![c].at = "exited"]
    /\ UNCHANGED <<priority, donations, donating_to, held_locks, holder,
                   sema_value, waiters, pc, arg,
                   execution_order, execution_count, cond_waiters, cw,
                   child_info, wait_log, timervars>>

\* SYS_WAIT: f->eax = process_wait(pid).  Wait 1: the current thread is the
\* parent.
process_wait(p, pid) ==
    /\ InUserCode(p) /\ proc[p].at = "none"
    /\ proc' = [proc EXCEPT ![p] = [@ EXCEPT !.at = "pw_acquire", !.pid = pid, !.ret = -1]]
    /\ UNCHANGED <<status, priority, donations, donating_to, held_locks, holder,
                   sema_value, waiters, ready_list, current, pc, arg,
                   execution_order, execution_count, cond_waiters, cw,
                   child_info, wait_log, timervars>>

\* Wait 2: acquire children_lock.
process_wait_acquire(p) ==
    /\ proc[p].at = "pw_acquire" /\ ~HoldsChildrenLock(p)
    /\ lock_acquire(p, children_lock)

\* Wait 3: search the children list for pid; not found, or has_been_waited
\* true: the call is going to release the lock and return -1.
process_wait_search(p) ==
    /\ InUserCode(p) /\ proc[p].at = "pw_acquire" /\ HoldsChildrenLock(p)
    /\ proc' = [proc EXCEPT ![p].at =
                   IF child_info[proc[p].pid].listed /\ ~child_info[proc[p].pid].has_been_waited
                   THEN "pw_mark" ELSE "pw_fail"]
    /\ UNCHANGED <<status, priority, donations, donating_to, held_locks, holder,
                   sema_value, waiters, ready_list, current, pc, arg,
                   execution_order, execution_count, cond_waiters, cw,
                   child_info, wait_log, timervars>>

\* A wait that does not record that the child has been waited for.
process_wait_mark_forgetful(p) ==
    /\ InUserCode(p) /\ proc[p].at = "pw_mark"
    /\ proc' = [proc EXCEPT ![p].at = "pw_test"]
    /\ UNCHANGED <<status, priority, donations, donating_to, held_locks, holder,
                   sema_value, waiters, ready_list, current, pc, arg,
                   execution_order, execution_count, cond_waiters, cw,
                   child_info, wait_log, timervars>>

\* Wait 4: has_been_waited = true.
process_wait_mark(p) ==
    /\ InUserCode(p) /\ proc[p].at = "pw_mark"
    /\ child_info' = [child_info EXCEPT ![proc[p].pid].has_been_waited = TRUE]
    /\ proc' = [proc EXCEPT ![p].at = "pw_test"]
    /\ UNCHANGED <<status, priority, donations, donating_to, held_locks, holder,
                   sema_value, waiters, ready_list, current, pc, arg,
                   execution_order, execution_count, cond_waiters, cw, wait_log, timervars>>

\* Wait 5: the test of has_exited.
process_wait_test(p) ==
    /\ InUserCode(p) /\ proc[p].at = "pw_test"
    /\ proc' = [proc EXCEPT ![p].at =
                   IF child_info[proc[p].pid].has_exited THEN "pw_read" ELSE "pw_unlock"]
    /\ UNCHANGED <<status, priority, donations, donating_to, held_locks, holder,
                   sema_value, waiters, ready_list, current, pc, arg,
                   execution_order, execution_count, cond_waiters, cw,
                   child_info, wait_log, timervars>>

\* Wait 5: release children_lock before blocking.
process_wait_unlock(p) ==
    /\ proc[p].at = "pw_unlock" /\ HoldsChildrenLock(p)
    /\ lock_release(p, children_lock)

\* A wait that goes into sema_down(&child->exit_sema) with children_lock
\* still held.
process_wait_sema_down_locked(p) ==
    /\ InUserCode(p) /\ proc[p].at = "pw_unlock" /\ HoldsChildrenLock(p)
    /\ sema_down_body(p, exit_sema(proc[p].pid), "pw_wait", "run")
    /\ proc' = [proc EXCEPT ![p].at = "pw_relock"]
    /\ UNCHANGED <<priority, donations, donating_to, held_locks, holder,
                   execution_order, execution_count, cond_waiters, cw,
                   child_info, wait_log, timervars>>

\* Wait 5: sema_down(&child->exit_sema), the first test of the count.
process_wait_sema_down(p) ==
    /\ InUserCode(p) /\ proc[p].at = "pw_unlock" /\ ~HoldsChildrenLock(p)
    /\ sema_down_body(p, exit_sema(proc[p].pid), "pw_wait", "run")
    /\ proc' = [proc EXCEPT ![p].at = "pw_relock"]
    /\ UNCHANGED <<priority, donations, donating_to, held_locks, holder,
                   execution_order, execution_count, cond_waiters, cw,
                   child_info, wait_log, timervars>>

\* Wait 5: the woken parent tests the count of exit_sema again.
process_wait_sema_retry(p) ==
    /\ Running(p) /\ pc[p] = "pw_wait"
    /\ sema_down_body(p, exit_sema(proc[p].pid), "pw_wait", "run")
    /\ UNCHANGED <<priority, donations, donating_to, held_locks, holder,
                   execution_order, execution_count, cond_waiters, cw, procvars, timervars>>

\* Wait 5: reacquire children_lock.
process_wait_relock(p) ==
    /\ proc[p].at = "pw_relock" /\ ~HoldsChildrenLock(p)
    /\ lock_acquire(p, children_lock)

\* Wait 5, end: the lock is held again.
process_wait_relocked(p) ==
    /\ InUserCode(p) /\ proc[p].at = "pw_relock" /\ HoldsChildrenLock(p)
    /\ proc' = [proc EXCEPT ![p].at = "pw_read"]
    /\ UNCHANGED <<status, priority, donations, donating_to, held_locks, holder,
                   sema_value, waiters, ready_list, current, pc, arg,
                   execution_order, execution_count, cond_waiters, cw,
                   child_info, wait_log, timervars>>

\* Wait 6: read exit_status from child_info->exit_status.
process_wait_read(p) ==
    /\ InUserCode(p) /\ proc[p].at = "pw_read"
    /\ proc' = [proc EXCEPT ![p] =
                   [@ EXCEPT !.at = "pw_done", !.ret = child_info[proc[p].pid].exit_status]]
    /\ UNCHANGED <<status, priority, donations, donating_to, held_locks, holder,
                   sema_value, waiters, ready_list, current, pc, arg,
                   execution_order, execution_count, cond_waiters, cw,
                   child_info, wait_log, timervars>>

\* Wait 7, and the release of Wait 3: release children_lock.
process_wait_release(p) ==
    /\ proc[p].at \in {"pw_done", "pw_fail"} /\ HoldsChildrenLock(p)
    /\ lock_release(p, children_lock)

\* Wait 8, and the return of Wait 3: the exit status read, or -1, is
\* returned.
process_wait_return(p) ==
    /\ InUserCode(p) /\ proc[p].at \in {"pw_done", "pw_fail"} /\ ~HoldsChildrenLock(p)
    /\ wait_log' = Append(wait_log,
                          [pid |-> proc[p].pid, value |-> proc[p].ret,
                           status_read |-> proc[p].at = "pw_done"])
    /\ proc' = [proc EXCEPT ![p].at = "none"]
    /\ UNCHANGED <<status, priority, donations, donating_to, held_locks, holder,
                   sema_value, waiters, ready_list, current, pc, arg,
                   execution_order, execution_count, cond_waiters, cw, child_info, timervars>>

\* The main thread, at PRI_DEFAULT, is the one running process.
ProcessInit == BasicInit

\* The main thread executes up to MaxChildren children and waits, up to
\* MaxWaits times, for any pid; every child loads, runs and exits with any
\* status; a timer tick may preempt any of them at any point.
wait_execute == Cardinality(Live \ {1}) < MaxChildren /\ process_execute(1)

wait_execute_create == process_execute_create(1)

wait_execute_sema_down == process_execute_sema_down(1)

wait_execute_sema_retry == process_execute_sema_retry(1)

wait_execute_check == process_execute_check(1)

wait_execute_acquire == process_execute_acquire(1)

wait_execute_add == process_execute_add(1)

wait_execute_release == process_execute_release(1)

wait_execute_return == process_execute_return(1)

wait_start_process == \E c \in Threads : start_process(c)

wait_start_process_sema_up == \E c \in Threads : start_process_sema_up(c)

wait_start_process_exit == \E c \in Threads : start_process_exit(c)

wait_syscall_exit == \E c \in Threads, st \in ExitStatuses : syscall_exit(c, st)

wait_exit_acquire == \E c \in Threads : process_exit_acquire(c)

wait_exit_search == \E c \in Threads : process_exit_search(c)

wait_exit_set_status == \E c \in Threads : process_exit_set_status(c)

wait_exit_set_exited == \E c \in Threads : process_exit_set_exited(c)

wait_exit_sema_up == \E c \in Threads : process_exit_sema_up(c)

wait_exit_release == \E c \in Threads : process_exit_release(c)

wait_exit_finish == \E c \in Threads : process_exit_finish(c)

wait_wait ==
    \E pid \in Threads \ {1} :
        /\ Len(wait_log) + 1 <= MaxWaits
        /\ process_wait(1, pid)

wait_wait_acquire == process_wait_acquire(1)

wait_wait_search == process_wait_search(1)

wait_wait_mark == process_wait_mark(1)

wait_wait_test == process_wait_test(1)

wait_wait_unlock == process_wait_unlock(1)

wait_wait_sema_down == process_wait_sema_down(1)

wait_wait_sema_retry == process_wait_sema_retry(1)

wait_wait_relock == process_wait_relock(1)

wait_wait_relocked == process_wait_relocked(1)

wait_wait_read == process_wait_read(1)

wait_wait_release == process_wait_release(1)

wait_wait_return == process_wait_return(1)

WaitNext ==
    \/ wait_execute
    \/ wait_execute_create
    \/ wait_execute_sema_down
    \/ wait_execute_sema_retry
    \/ wait_execute_check
    \/ wait_execute_acquire
    \/ wait_execute_add
    \/ wait_execute_release
    \/ wait_execute_return
    \/ wait_start_process
    \/ wait_start_process_sema_up
    \/ wait_start_process_exit
    \/ wait_syscall_exit
    \/ wait_exit_acquire
    \/ wait_exit_search
    \/ wait_exit_set_status
    \/ wait_exit_set_exited
    \/ wait_exit_sema_up
    \/ wait_exit_release
    \/ wait_exit_finish
    \/ wait_wait
    \/ wait_wait_acquire
    \/ wait_wait_search
    \/ wait_wait_mark
    \/ wait_wait_test
    \/ wait_wait_unlock
    \/ wait_wait_sema_down
    \/ wait_wait_sema_retry
    \/ wait_wait_relock
    \/ wait_wait_relocked
    \/ wait_wait_read
    \/ wait_wait_release
    \/ wait_wait_return
    \/ inv_acquire_sema_down
    \/ inv_acquire_sema_retry
    \/ inv_acquire_set_holder
    \/ inv_acquire_finish
    \/ inv_release_sema_up
    \/ inv_release_yield_check
    \/ timer_tick

SpecWait == ProcessInit /\ [][WaitNext]_vars

\* -------------------------------------------------------- file syscalls
\* The file system calls of syscall_handler and destroy_file_descriptor_table.
\* proc[t].at is the position of t in the handler, together with
\* filesys_lock being or not being in its held_locks; a thread is inside the
\* file system while it is between the call of a filesys_* / file_* function
\* and its return.

\* The global filesys_lock.
filesys_lock == 2

\* The system calls of the handler that call into the file system.
FileSyscalls ==
    {"create", "remove", "open", "filesize", "read", "write", "seek", "tell", "close"}

\* The system calls that look their file up with find_file_descriptor.
FdSyscalls == {"filesize", "read", "write", "seek", "tell", "close"}

HoldsFilesysLock(t) == filesys_lock \in Range(held_locks[t])

\* t is inside a file system function.
InFileSystem(t) == proc[t].at \in {"fs_in", "dt_close"}

\* syscall_handler: a file system call enters the switch.
syscall_handler(t, sc) ==
    /\ InUserCode(t) /\ proc[t].at = "none"
    /\ sc = "open" => proc[t].open_files < MaxOpen
    /\ proc' = [proc EXCEPT ![t] = [@ EXCEPT !.at = "fs_acquire", !.syscall = sc]]
    /\ UNCHANGED <<status, priority, donations, donating_to, held_locks, holder,
                   sema_value, waiters, ready_list, current, pc, arg,
                   execution_order, execution_count, cond_waiters, cw,
                   child_info, wait_log, timervars>>

\* A handler that goes into the file system without taking filesys_lock.
syscall_lock_skip(t) ==
    /\ InUserCode(t) /\ proc[t].at = "fs_acquire"
    /\ proc' = [proc EXCEPT ![t].at = "fs_call"]
    /\ UNCHANGED <<status, priority, donations, donating_to, held_locks, holder,
                   sema_value, waiters, ready_list, current, pc, arg,
                   execution_order, execution_count, cond_waiters, cw,
                   child_info, wait_log, timervars>>

\* lock_acquire(&filesys_lock), the first statement of every file case.
syscall_lock_acquire(t) ==
    /\ proc[t].at = "fs_acquire" /\ ~HoldsFilesysLock(t)
    /\ lock_acquire(t, filesys_lock)

\* The validation of the arguments, with the lock held; args_ok is what it
\* finds.  SYS_WRITE uses validate_buffer_in_user_region, which calls
\* syscall_exit(-1) itself; the other cases use the safe_ functions, release
\* the lock and then call syscall_exit(-1).
syscall_validate(t, args_ok) ==
    /\ InUserCode(t) /\ proc[t].at = "fs_acquire" /\ HoldsFilesysLock(t)
    /\ proc' = [proc EXCEPT ![t].at =
                   IF args_ok THEN "fs_call"
                   ELSE IF proc[t].syscall = "write" THEN "exit"
                   ELSE "fs_invalid"]
    /\ UNCHANGED <<status, priority, donations, donating_to, held_locks, holder,
                   sema_value, waiters, ready_list, current, pc, arg,
                   execution_order, execution_count, cond_waiters, cw,
                   child_info, wait_log, timervars>>

\* syscall_create ... syscall_seek up to the call into the file system;
\* fd_ok is what find_file_descriptor finds for the calls that take an fd.
\* Without a descriptor syscall_seek calls syscall_exit(-1), syscall_close
\* returns false and the others return -1.
syscall_call(t, fd_ok) ==
    /\ InUserCode(t) /\ proc[t].at = "fs_call"
    /\ fd_ok => proc[t].syscall \in FdSyscalls /\ proc[t].open_files > 0
    /\ proc' = [proc EXCEPT ![t].at =
                   IF proc[t].syscall \in FdSyscalls /\ ~fd_ok
                   THEN IF proc[t].syscall = "seek" THEN "exit"
                        ELSE IF proc[t].syscall = "close" THEN "fs_invalid"
                        ELSE "fs_release"
                   ELSE "fs_in"]
    /\ UNCHANGED <<status, priority, donations, donating_to, held_locks, holder,
                   sema_value, waiters, ready_list, current, pc, arg,
                   execution_order, execution_count, cond_waiters, cw,
                   child_info, wait_log, timervars>>

\* The file system function returns; syscall_open adds a descriptor to
\* open_files, syscall_close removes one.
syscall_fs_return(t) ==
    /\ InUserCode(t) /\ proc[t].at = "fs_in"
    /\ proc' = [proc EXCEPT ![t] =
                   [@ EXCEPT !.at = "fs_release",
                             !.open_files =
                                 IF proc[t].syscall = "open" THEN @ + 1
                                 ELSE IF proc[t].syscall = "close" THEN @ - 1
                                 ELSE @]]
    /\ UNCHANGED <<status, priority, donations, donating_to, held_locks, holder,
                   sema_value, waiters, ready_list, current, pc, arg,
                   execution_order, execution_count, cond_waiters, cw,
                   child_info, wait_log, timervars>>

\* lock_release(&filesys_lock) at the end of a case, after a failed safe_
\* validation or after a failed close.
syscall_lock_release(t) ==
    /\ proc[t].at \in {"fs_release", "fs_invalid"} /\ HoldsFilesysLock(t)
    /\ lock_release(t, filesys_lock)

\* The end of a case: syscall_exit(-1) after a failed validation or a failed
\* close, otherwise the return to user code.
syscall_return(t) ==
    /\ InUserCode(t) /\ proc[t].at \in {"fs_release", "fs_invalid"}
    /\ ~HoldsFilesysLock(t)
    /\ proc' = [proc EXCEPT ![t] =
                   [@ EXCEPT !.at = IF proc[t].at = "fs_invalid" THEN "exit" ELSE "none",
                             !.syscall = "none"]]
    /\ UNCHANGED <<status, priority, donations, donating_to, held_locks, holder,
                   sema_value, waiters, ready_list, current, pc, arg,
                   execution_order, execution_count, cond_waiters, cw,
                   child_info, wait_log, timervars>>

\* syscall_exit -> process_exit reaches destroy_file_descriptor_table (the
\* close of all files of file_ops.md), with or without filesys_lock held by
\* the caller.
process_exit_files(t) ==
    /\ InUserCode(t) /\ proc[t].at = "exit"
    /\ proc' = [proc EXCEPT ![t] =
                   [@ EXCEPT !.at = IF holder[filesys_lock] = t
                                    THEN "dt_acquire_held" ELSE "dt_acquire",
                             !.syscall = "none"]]
    /\ UNCHANGED <<status, priority, donations, donating_to, held_locks, holder,
                   sema_value, waiters, ready_list, current, pc, arg,
                   execution_order, execution_count, cond_waiters, cw,
                   child_info, wait_log, timervars>>

\* destroy_file_descriptor_table: lock_acquire(&filesys_lock).
destroy_table_acquire(t) ==
    /\ proc[t].at = "dt_acquire" /\ ~HoldsFilesysLock(t)
    /\ lock_acquire(t, filesys_lock)

\* destroy_file_descriptor_table: lock_acquire(&filesys_lock) by a caller
\* that exited with the lock held.
destroy_table_acquire_held(t) ==
    /\ proc[t].at = "dt_acquire_held"
    /\ lock_acquire_by_holder(t, filesys_lock)

\* destroy_file_descriptor_table: while (!list_empty(&pcb->open_files)),
\* up to the call of file_close.
destroy_table_loop(t) ==
    /\ InUserCode(t)
    /\ \/ proc[t].at = "dt_acquire" /\ HoldsFilesysLock(t)
       \/ proc[t].at = "dt_loop"
    /\ proc' = [proc EXCEPT ![t].at =
                   IF proc[t].open_files > 0 THEN "dt_close" ELSE "dt_release"]
    /\ UNCHANGED <<status, priority, donations, donating_to, held_locks, holder,
                   sema_value, waiters, ready_list, current, pc, arg,
                   execution_order, execution_count, cond_waiters, cw,
                   child_info, wait_log, timervars>>

\* destroy_file_descriptor_table: file_close returns, the descriptor is freed.
destroy_table_close(t) ==
    /\ InUserCode(t) /\ proc[t].at = "dt_close"
    /\ proc' = [proc EXCEPT ![t] = [@ EXCEPT !.at = "dt_loop", !.open_files = @ - 1]]
    /\ UNCHANGED <<status, priority, donations, donating_to, held_locks, holder,
                   sema_value, waiters, ready_list, current, pc, arg,
                   execution_order, execution_count, cond_waiters, cw,
                   child_info, wait_log, timervars>>

\* destroy_file_descriptor_table: lock_release(&filesys_lock).
destroy_table_release(t) ==
    /\ proc[t].at = "dt_release" /\ HoldsFilesysLock(t)
    /\ lock_release(t, filesys_lock)

\* The rest of process_exit: the thread dies.
process_exit_die(t) ==
    /\ InUserCode(t) /\ proc[t].at = "dt_release" /\ ~HoldsFilesysLock(t)
    /\ schedule([status EXCEPT ![t] = "DYING"], ready_list)
    /\ proc' = [proc EXCEPT ![t].at = "exited"]
    /\ UNCHANGED <<priority, donations, donating_to, held_locks, holder,
                   sema_value, waiters, pc, arg,
                   execution_order, execution_count, cond_waiters, cw,
                   child_info, wait_log, timervars>>

\* Up to MaxProcs processes at PRI_DEFAULT make file system calls with valid
\* and invalid arguments, with up to MaxOpen open files each, and exit; a
\* timer tick may preempt any of them at any point.
fs_create ==
    \E t \in Threads : Cardinality(Live) < MaxProcs /\ thread_create(t, PRI_DEFAULT)

fs_syscall == \E t \in Threads, sc \in FileSyscalls : syscall_handler(t, sc)

fs_lock_acquire == \E t \in Threads : syscall_lock_acquire(t)

fs_validate == \E t \in Threads, args_ok \in BOOLEAN : syscall_validate(t, args_ok)

fs_call == \E t \in Threads, fd_ok \in BOOLEAN : syscall_call(t, fd_ok)

fs_return == \E t \in Threads : syscall_fs_return(t)

fs_lock_release == \E t \in Threads : syscall_lock_release(t)

fs_syscall_return == \E t \in Threads : syscall_return(t)

fs_exit == \E t \in Threads : process_exit_files(t)

fs_destroy_acquire == \E t \in Threads : destroy_table_acquire(t)

fs_destroy_acquire_held == \E t \in Threads : destroy_table_acquire_held(t)

fs_destroy_loop == \E t \in Threads : destroy_table_loop(t)

fs_destroy_close == \E t \in Threads : destroy_table_close(t)

fs_destroy_release == \E t \in Threads : destroy_table_release(t)

fs_die == \E t \in Threads : process_exit_die(t)

FilesysNext ==
    \/ fs_create
    \/ fs_syscall
    \/ fs_lock_acquire
    \/ fs_validate
    \/ fs_call
    \/ fs_return
    \/ fs_lock_release
    \/ fs_syscall_return
    \/ fs_exit
    \/ fs_destroy_acquire
    \/ fs_destroy_acquire_held
    \/ fs_destroy_loop
    \/ fs_destroy_close
    \/ fs_destroy_release
    \/ fs_die
    \/ inv_acquire_sema_down
    \/ inv_acquire_sema_retry
    \/ inv_acquire_set_holder
    \/ inv_acquire_finish
    \/ inv_release_sema_up
    \/ inv_release_yield_check
    \/ timer_tick

SpecFilesys == ProcessInit /\ [][FilesysNext]_vars

\* -------------------------------------------------------------- alarm clock
\* The last tick the model lets the timer reach.
MaxTicks == 3
\* The greatest argument of timer_sleep; the smallest is -1.
MaxSleep == 2
SleepArgs == (0 - 1)..MaxSleep

\* wake_time_less: a wakes strictly before b.
wake_time_less(wt, a, b) == wt[a] < wt[b]

\* list_insert_ordered(&sleep_list, ..., wake_time_less): t goes before the
\* first sleeper that wakes strictly later.
sleep_insert_ordered(s, t, wt) ==
    LET later == {i \in 1..Len(s) : wake_time_less(wt, t, s[i])}
    IN  IF later = {} THEN Append(s, t)
        ELSE InsertAt(s, CHOOSE i \in later : \A j \in later : i <= j, t)

\* timer_sleep(n), step 1: with n <= 0 the call returns without sleeping.
timer_sleep(t, n) ==
    /\ Running(t) /\ pc[t] = "run"
    /\ pc' = [pc EXCEPT ![t] = IF n <= 0 THEN "sleep_skip" ELSE "sleep_enter"]
    /\ arg' = [arg EXCEPT ![t] = n]
    /\ UNCHANGED <<status, priority, donations, donating_to, held_locks, holder,
                   sema_value, waiters, ready_list, current,
                   execution_order, execution_count, cond_waiters, cw, procvars,
                   timervars>>

\* Step 2, before interrupts are disabled: wake_time = timer_ticks() + ticks.
timer_sleep_calc(t) ==
    /\ Running(t) /\ pc[t] = "sleep_enter"
    /\ wake_time' = [wake_time EXCEPT ![t] = ticks + arg[t]]
    /\ pc' = [pc EXCEPT ![t] = "sleep_block"]
    /\ UNCHANGED <<status, priority, donations, donating_to, held_locks, holder,
                   sema_value, waiters, ready_list, current, arg,
                   execution_order, execution_count, cond_waiters, cw, procvars,
                   ticks, sleep_list>>

\* Steps 3 to 5, interrupts disabled: the caller is inserted into sleep_list
\* and blocks.
timer_sleep_block(t) ==
    /\ Running(t) /\ pc[t] = "sleep_block"
    /\ sleep_list' = sleep_insert_ordered(sleep_list, t, wake_time)
    /\ schedule([status EXCEPT ![t] = "BLOCKED"], ready_list)
    /\ pc' = [pc EXCEPT ![t] = "sleep_woken"]
    /\ UNCHANGED <<priority, donations, donating_to, held_locks, holder,
                   sema_value, waiters, arg,
                   execution_order, execution_count, cond_waiters, cw, procvars,
                   ticks, wake_time>>

\* timer_sleep as docs/threads/alarm_clock.md orders it: interrupts are
\* disabled first, then wake_time is set, the caller is inserted and blocks.
timer_sleep_critical(t) ==
    /\ Running(t) /\ pc[t] = "sleep_enter"
    /\ wake_time' = [wake_time EXCEPT ![t] = ticks + arg[t]]
    /\ sleep_list' = sleep_insert_ordered(sleep_list, t, wake_time')
    /\ schedule([status EXCEPT ![t] = "BLOCKED"], ready_list)
    /\ pc' = [pc EXCEPT ![t] = "sleep_woken"]
    /\ UNCHANGED <<priority, donations, donating_to, held_locks, holder,
                   sema_value, waiters, arg,
                   execution_order, execution_count, cond_waiters, cw, procvars,
                   ticks>>

\* Step 6 after the wake-up, or the return of step 1.
timer_sleep_return(t) ==
    /\ Running(t) /\ pc[t] \in {"sleep_woken", "sleep_skip"}
    /\ pc' = [pc EXCEPT ![t] = "run"]
    /\ arg' = [arg EXCEPT ![t] = NULL]
    /\ UNCHANGED <<status, priority, donations, donating_to, held_locks, holder,
                   sema_value, waiters, ready_list, current,
                   execution_order, execution_count, cond_waiters, cw, procvars,
                   timervars>>

\* The sleepers the interrupt at tick now wakes: the walk from the front of
\* sleep_list stops at the first thread with wake_time > now.
Expired(s, wt, now) ==
    LET late == {i \in 1..Len(s) : wt[s[i]] > now}
    IN  IF late = {} THEN s
        ELSE SubSeq(s, 1, (CHOOSE i \in late : \A j \in late : i <= j) - 1)

\* thread_unblock of each thread of ws in turn.
RECURSIVE unblock_all(_, _, _)
unblock_all(rl, ws, eff) ==
    IF ws = <<>> THEN rl
    ELSE unblock_all(list_insert_ordered(rl, Head(ws), eff), Tail(ws), eff)

\* timer_wake_sleeping_threads at tick now: thread states and ready list
\* after the expired sleepers are unblocked.
timer_wake_sleeping_threads(now) ==
    LET ws == Expired(sleep_list, wake_time, now)
    IN  [st |-> [t \in Threads |-> IF t \in Range(ws) THEN "READY" ELSE status[t]],
         rl |-> unblock_all(ready_list, ws, EffIn(priority, donations)),
         sl |-> SubSeq(sleep_list, Len(ws) + 1, Len(sleep_list))]

\* timer_interrupt: ticks++, the expired sleepers are woken, then
\* thread_tick: the running thread yields on return when its time slice
\* has expired; the idle thread gives the processor up after any interrupt.
timer_interrupt(expired) ==
    /\ ticks < MaxTicks
    /\ current \in Threads => pc[current] # "acq_walk_forever"
    /\ ticks' = ticks + 1
    /\ LET w == timer_wake_sleeping_threads(ticks')
       IN  /\ sleep_list' = w.sl
           /\ IF current = IDLE
              THEN schedule(w.st, w.rl)
              ELSE IF expired
                   THEN schedule([w.st EXCEPT ![current] = "READY"],
                                 list_insert_ordered(w.rl, current,
                                                     EffIn(priority, donations)))
                   ELSE /\ status' = w.st
                        /\ ready_list' = w.rl
                        /\ UNCHANGED current
    /\ UNCHANGED <<priority, donations, donating_to, held_locks, holder,
                   sema_value, waiters, pc, arg,
                   execution_order, execution_count, cond_waiters, cw, procvars,
                   wake_time>>

\* ---- scenario: threads of any priorities sleep, some while holding a lock
\* L and H of the donation example: below and above the main thread.
SleepPriorities == {10, 60}

sleep_create ==
    \E p \in SleepPriorities :
        /\ Cardinality(Live) < MaxLive
        /\ thread_create(1, p)

sleep_call == \E t \in Threads, n \in SleepArgs : timer_sleep(t, n)

\* A created thread takes the lock, and may sleep while it holds it.
SleepLock == 1

sleep_lock_acquire == \E t \in Threads \ {1} : lock_acquire(t, SleepLock)

sleep_lock_release == \E t \in Threads : lock_release(t, SleepLock)

sleep_calc == \E t \in Threads : timer_sleep_calc(t)

sleep_block == \E t \in Threads : timer_sleep_block(t)

sleep_critical == \E t \in Threads : timer_sleep_critical(t)

sleep_return == \E t \in Threads : timer_sleep_return(t)

sleep_tick == \E expired \in BOOLEAN : timer_interrupt(expired)

SleepNext ==
    \/ sleep_create
    \/ sleep_call
    \/ sleep_calc
    \/ sleep_block
    \/ sleep_critical
    \/ sleep_return
    \/ sleep_tick
    \/ sleep_lock_acquire
    \/ sleep_lock_release
    \/ inv_acquire_sema_down
    \/ inv_acquire_sema_retry
    \/ inv_acquire_set_holder
    \/ inv_acquire_finish
    \/ inv_release_sema_up
    \/ inv_release_yield_check

SpecSleep == BasicInit /\ [][SleepNext]_vars

\* ------------------------------------- a waiter that holds a contended lock
\* Two locks and four threads, created in turn by whichever thread runs:
\* thread 1 (priority 10) takes lock 1; thread 2 (10) takes lock 2 and then
\* lock 1; thread 3 (30) takes lock 1; thread 4 (60) takes lock 2 and so
\* donates to thread 2, also while thread 2 sits in the waiters of lock 1 or
\* in the ready list.  Every kernel step is the step of the general
\* specification.
WakePriority == <<10, 10, 30, 60>>

\* The locks each thread takes, in the order it takes them.
WakeLocks == <<(<<1>>), (<<2, 1>>), (<<1>>), (<<2>>)>>

wake_create ==
    \E t \in Threads, n \in Threads :
        /\ status[n] = "NONE"
        /\ \A m \in Threads : status[m] = "NONE" => n <= m
        /\ thread_create(t, WakePriority[n])

\* Thread t takes the first lock of its list that it does not hold.
wake_acquire ==
    \E t \in Threads :
        \E i \in 1..Len(WakeLocks[t]) :
            /\ \A j \in 1..(i - 1) : WakeLocks[t][j] \in Range(held_locks[t])
            /\ WakeLocks[t][i] \notin Range(held_locks[t])
            /\ lock_acquire(t, WakeLocks[t][i])

wake_release ==
    \E t \in Threads, l \in Locks :
        /\ l \in Range(held_locks[t])
        /\ lock_release(t, l)

WakeNext ==
    \/ wake_create
    \/ wake_acquire
    \/ wake_release
    \/ inv_acquire_sema_down
    \/ inv_acquire_sema_retry
    \/ inv_acquire_set_holder
    \/ inv_acquire_finish
    \/ inv_release_sema_up
    \/ inv_release_yield_check
    \/ timer_tick

SpecWake == InvInit /\ [][WakeNext]_vars

\* ------------------------------------- waiters of equal effective priority
\* The plain semaphore, one lock and four threads, created in turn by
\* whichever thread runs: threads 1 (priority 10), 2 (10) and 4 (30) wait on
\* the semaphore, thread 2 also while it holds the lock; thread 3 (30)
\* acquires the lock and so donates to thread 2; any thread posts the
\* semaphore.  Every kernel step is the step of the general specification.
FifoPriority == <<10, 10, 30, 30>>

FifoLock == 2

FifoLockers == {2, 3}

fifo_create ==
    \E t \in Threads, n \in Threads :
        /\ status[n] = "NONE"
        /\ \A m \in Threads : status[m] = "NONE" => n <= m
        /\ thread_create(t, FifoPriority[n])

fifo_sema_down == \E t \in Threads \ {3} : sema_down(t, "run", "run")

fifo_sema_down_retry == \E t \in Threads : sema_down_retry(t, "run")

\* sema_up, with the count kept at most at one.
fifo_sema_up ==
    \E t \in Threads :
        /\ sema_value[PlainSema] = 0
        /\ sema_up(t, "run", "run")

fifo_acquire == \E t \in FifoLockers : lock_acquire(t, FifoLock)

fifo_release == \E t \in Threads : lock_release(t, FifoLock)

FifoNext ==
    \/ fifo_create
    \/ fifo_sema_down
    \/ fifo_sema_down_retry
    \/ fifo_sema_up
    \/ fifo_acquire
    \/ fifo_release
    \/ inv_acquire_sema_down
    \/ inv_acquire_sema_retry
    \/ inv_acquire_set_holder
    \/ inv_acquire_finish
    \/ inv_release_sema_up
    \/ inv_release_yield_check
    \/ timer_tick

SpecFifo == InvInit /\ [][FifoNext]_vars

\* ------------------------------------------------ file descriptor table
\* userprog/syscall.c: the open_files list of a process, proc[t].fds, and
\* its next_fd.  The list belongs to one process and is only touched by
\* that process with filesys_lock held, so each call is one step here;
\* proc[t].fd_log records the numbers open has returned.
MaxFd == 5

\* The descriptor numbers a user program passes: the console, numbers that
\* were opened and numbers that never were.
FdArgs == 0..MaxFd

\* find_file_descriptor: the index in list fds of the entry for fd, 0 for
\* NULL; a number below FIRST_FILE_FD is not looked up.
find_file_descriptor(fds, fd) ==
    IF fd < FIRST_FILE_FD THEN 0
    ELSE LET hits == {i \in 1..Len(fds) : fds[i] = fd}
         IN  IF hits = {} THEN 0 ELSE CHOOSE i \in hits : \A j \in hits : i <= j

\* list_remove of the entry at index i.
fd_list_remove(fds, i) == SubSeq(fds, 1, i - 1) \o SubSeq(fds, i + 1, Len(fds))

\* A syscall_open that hands out the lowest number >= FIRST_FILE_FD that is
\* not in open_files.
syscall_open_lowest_free(t, ok) ==
    /\ InUserCode(t) /\ proc[t].at = "none"
    /\ proc[t].next_fd < MaxFd
    /\ LET free == {n \in FIRST_FILE_FD..MaxFd : n \notin Range(proc[t].fds)}
           fd == CHOOSE n \in free : \A m \in free : n <= m
       IN  proc' = [proc EXCEPT ![t] =
                IF ok
                THEN [@ EXCEPT !.fds = Append(@, fd),
                               !.next_fd = @ + 1,
                               !.fd_log = Append(@, fd),
                               !.ret = fd]
                ELSE [@ EXCEPT !.ret = -1]]
    /\ UNCHANGED <<status, priority, donations, donating_to, held_locks, holder,
                   sema_value, waiters, ready_list, current, pc, arg,
                   execution_order, execution_count, cond_waiters, cw,
                   child_info, wait_log, timervars>>

\* syscall_open: when the name is NULL, filesys_open fails or malloc fails
\* (ok false) it returns -1; otherwise the new entry takes next_fd++ and
\* goes to the back of open_files.
syscall_open(t, ok) ==
    /\ InUserCode(t) /\ proc[t].at = "none"
    /\ proc[t].next_fd < MaxFd
    /\ proc' = [proc EXCEPT ![t] =
                IF ok
                THEN [@ EXCEPT !.fds = Append(@, proc[t].next_fd),
                               !.next_fd = @ + 1,
                               !.fd_log = Append(@, proc[t].next_fd),
                               !.ret = proc[t].next_fd]
                ELSE [@ EXCEPT !.ret = -1]]
    /\ UNCHANGED <<status, priority, donations, donating_to, held_locks, holder,
                   sema_value, waiters, ready_list, current, pc, arg,
                   execution_order, execution_count, cond_waiters, cw,
                   child_info, wait_log, timervars>>

\* syscall_close: false (0) without an entry, otherwise the entry is removed
\* and freed and the call returns true (1).
syscall_close(t, fd) ==
    /\ InUserCode(t) /\ proc[t].at = "none"
    /\ LET i == find_file_descriptor(proc[t].fds, fd)
       IN  proc' = [proc EXCEPT ![t] =
                IF i = 0 THEN [@ EXCEPT !.ret = 0]
                ELSE [@ EXCEPT !.fds = fd_list_remove(@, i), !.ret = 1]]
    /\ UNCHANGED <<status, priority, donations, donating_to, held_locks, holder,
                   sema_value, waiters, ready_list, current, pc, arg,
                   execution_order, execution_count, cond_waiters, cw,
                   child_info, wait_log, timervars>>

\* syscall_filesize / syscall_tell / syscall_read / syscall_write on a file:
\* -1 without an entry, otherwise the call goes to the file of the entry
\* found; ret records the number of that entry.
syscall_filesize(t, fd) ==
    /\ InUserCode(t) /\ proc[t].at = "none"
    /\ LET i == find_file_descriptor(proc[t].fds, fd)
       IN  proc' = [proc EXCEPT ![t].ret = IF i = 0 THEN -1 ELSE proc[t].fds[i]]
    /\ UNCHANGED <<status, priority, donations, donating_to, held_locks, holder,
                   sema_value, waiters, ready_list, current, pc, arg,
                   execution_order, execution_count, cond_waiters, cw,
                   child_info, wait_log, timervars>>

\* destroy_file_descriptor_table at process exit: list_pop_back until the
\* list is empty; the process is gone afterwards.
destroy_file_descriptor_table(t) ==
    /\ InUserCode(t) /\ proc[t].at = "none"
    /\ schedule([status EXCEPT ![t] = "DYING"], ready_list)
    /\ proc' = [proc EXCEPT ![t] = [@ EXCEPT !.at = "exited", !.fds = <<>>]]
    /\ UNCHANGED <<priority, donations, donating_to, held_locks, holder,
                   sema_value, waiters, pc, arg,
                   execution_order, execution_count, cond_waiters, cw,
                   child_info, wait_log, timervars>>

\* Up to MaxProcs processes open, use and close files in any order, with
\* valid and invalid descriptor numbers, and exit; the timer may tick at any
\* point.
fd_create ==
    \E t \in Threads : Cardinality(Live) < MaxProcs /\ thread_create(t, PRI_DEFAULT)

fd_open == \E t \in Threads, ok \in BOOLEAN : syscall_open(t, ok)

fd_close == \E t \in Threads, fd \in FdArgs : syscall_close(t, fd)

fd_filesize == \E t \in Threads, fd \in FdArgs : syscall_filesize(t, fd)

fd_exit == \E t \in Threads : destroy_file_descriptor_table(t)

FdNext ==
    \/ fd_create
    \/ fd_open
    \/ fd_close
    \/ fd_filesize
    \/ fd_exit
    \/ timer_tick

SpecFd == ProcessInit /\ [][FdNext]_vars

\* ------------------------------------------ parent exit before child
\* process_exit 1 and 2 of a process whose pcb->parent is NULL: the parent
\* already exited, nobody is signalled and no lock is taken.
process_exit_orphan(c, st) ==
    /\ InUserCode(c) /\ proc[c].at = "user"
    /\ proc[c].parent = NULL
    /\ proc' = [proc EXCEPT ![c] = [@ EXCEPT !.at = "px_release", !.status = st]]
    /\ UNCHANGED <<status, priority, donations, donating_to, held_locks, holder,
                   sema_value, waiters, ready_list, current, pc, arg,
                   execution_order, execution_count, cond_waiters, cw,
                   child_info, wait_log, timervars>>

\* process_exit of a process that has no parent to report to enters step 3,
\* the clean-up of its own children list.
process_exit_children(p) ==
    /\ InUserCode(p) /\ proc[p].at = "none"
    /\ proc[p].parent = NULL
    /\ proc' = [proc EXCEPT ![p].at = "pc_acquire"]
    /\ UNCHANGED <<status, priority, donations, donating_to, held_locks, holder,
                   sema_value, waiters, ready_list, current, pc, arg,
                   execution_order, execution_count, cond_waiters, cw,
                   child_info, wait_log, timervars>>

\* Parent Exit Before Child 1: acquire children_lock.
process_exit_children_acquire(p) ==
    /\ proc[p].at = "pc_acquire" /\ ~HoldsChildrenLock(p)
    /\ lock_acquire(p, children_lock)

\* Parent Exit Before Child 2: for each child_info in the list, a child that
\* has not exited gets pcb->parent = NULL, and the child_info is removed from
\* the list and destroyed.
process_exit_children_cleanup(p) ==
    /\ InUserCode(p) /\ proc[p].at = "pc_acquire" /\ HoldsChildrenLock(p)
    /\ child_info' = [c \in Threads |->
                         IF child_info[c].listed THEN NoChild ELSE child_info[c]]
    /\ proc' = [c \in Threads |->
                   IF c = p THEN [proc[p] EXCEPT !.at = "pc_release"]
                   ELSE IF child_info[c].listed /\ ~child_info[c].has_exited
                        THEN [proc[c] EXCEPT !.parent = NULL]
                        ELSE proc[c]]
    /\ UNCHANGED <<status, priority, donations, donating_to, held_locks, holder,
                   sema_value, waiters, ready_list, current, pc, arg,
                   execution_order, execution_count, cond_waiters, cw,
                   wait_log, timervars>>

\* Parent Exit Before Child 3: release children_lock.
process_exit_children_release(p) ==
    /\ proc[p].at = "pc_release" /\ HoldsChildrenLock(p)
    /\ lock_release(p, children_lock)

\* The end of the parent's process_exit: the thread dies and its pcb, with
\* the children list and children_lock, is freed.
process_exit_children_finish(p) ==
    /\ InUserCode(p) /\ proc[p].at = "pc_release" /\ ~HoldsChildrenLock(p)
    /\ schedule([status EXCEPT ![p] = "DYING"], ready_list)
    /\ proc' = [proc EXCEPT ![p].at = "exited"]
    /\ UNCHANGED <<priority, donations, donating_to, held_locks, holder,
                   sema_value, waiters, pc, arg,
                   execution_order, execution_count, cond_waiters, cw,
                   child_info, wait_log, timervars>>

\* The main process executes up to MaxChildren children and exits without
\* waiting; each child exits with any status, before, during or after the
\* exit of the parent; the timer may tick at any point.
orphan_exit ==
    \E c \in Threads, st \in ExitStatuses : proc[c].parent # NULL /\ syscall_exit(c, st)

orphan_exit_alone == \E c \in Threads, st \in ExitStatuses : process_exit_orphan(c, st)

orphan_parent_exit == process_exit_children(1)

orphan_parent_acquire == process_exit_children_acquire(1)

orphan_parent_cleanup == process_exit_children_cleanup(1)

orphan_parent_release == process_exit_children_release(1)

orphan_parent_finish == process_exit_children_finish(1)

OrphanNext ==
    \/ wait_execute
    \/ wait_execute_create
    \/ wait_execute_sema_down
    \/ wait_execute_sema_retry
    \/ wait_execute_check
    \/ wait_execute_acquire
    \/ wait_execute_add
    \/ wait_execute_release
    \/ wait_execute_return
    \/ wait_start_process
    \/ wait_start_process_sema_up
    \/ wait_start_process_exit
    \/ orphan_exit
    \/ orphan_exit_alone
    \/ wait_exit_acquire
    \/ wait_exit_search
    \/ wait_exit_set_status
    \/ wait_exit_set_exited
    \/ wait_exit_sema_up
    \/ wait_exit_release
    \/ wait_exit_finish
    \/ orphan_parent_exit
    \/ orphan_parent_acquire
    \/ orphan_parent_cleanup
    \/ orphan_parent_release
    \/ orphan_parent_finish
    \/ inv_acquire_sema_down
    \/ inv_acquire_sema_retry
    \/ inv_acquire_set_holder
    \/ inv_acquire_finish
    \/ inv_release_sema_up
    \/ inv_release_yield_check
    \/ timer_tick

SpecOrphan == ProcessInit /\ [][OrphanNext]_vars

\* ------------------------------------------------------------------ claims
\* The running thread has an effective priority no smaller than that of any
\* thread in the ready list.
RunningIsHighest ==
    current \in Threads =>
        \A r \in Range(ready_list) : thread_get_priority(current) >= thread_get_priority(r)

\* C1: at every dispatch step that switches threads, the thread switched to
\* has, at that moment, the greatest effective priority among all READY
\* threads, also when a READY lock holder was raised by a donation after it
\* entered the ready list.
C1_DispatchesHighestReady == [][current' # current => RunningIsHighest']_vars

\* C2: bounded priority inversion.  Once a thread H is blocked in
\* lock_acquire on the lock while the lower-priority L (thread 1) is its
\* holder and has H's donation, H eventually becomes the holder, although M
\* never blocks or yields.
C2_HEventuallyHolds ==
    \A h \in Threads \ {1} :
        (/\ status[h] = "BLOCKED" /\ pc[h] = "acq_wait" /\ priority[h] = 60
         /\ holder[InvLock] = 1 /\ donating_to[h] = 1) ~> (holder[InvLock] = h)

\* The donations of list s that donor did not make, in their order.
donations_not_by(s, donor) ==
    LET F[i \in 0..Len(s)] ==
            IF i = 0 THEN <<>>
            ELSE IF s[i].donor # donor THEN Append(F[i - 1], s[i]) ELSE F[i - 1]
    IN  F[Len(s)]

\* The step blocks thread h, inside lock_acquire, on a lock whose holder is l.
BlocksOn(h, l) ==
    pc[h] = "acq_sema" /\ pc'[h] = "acq_wait" /\ holder[arg[h]] = l

\* C3: when H blocks in lock_acquire on a lock held by L, then immediately
\* after H has become BLOCKED, thread_get_priority(L) is the maximum of L's
\* effective priority without H's donation and H's effective priority.
C3_DonationOnBlock ==
    [][\A h \in Threads : \A l \in Threads :
         BlocksOn(h, l)
         => thread_get_priority(l)' =
              Max(get_priority_in(priority', [donations' EXCEPT ![l] = donations_not_by(@, h)], l),
                  thread_get_priority(h)')]_vars

\* The thread that holds the lock t is blocked on in lock_acquire, NULL when
\* t is not blocked on a lock or that lock has no holder.
WaitsFor(t) ==
    IF status[t] = "BLOCKED" /\ pc[t] = "acq_wait" THEN holder[arg[t]] ELSE NULL

\* The threads along the chain of lock holders that starts at t.
RECURSIVE ChainFrom(_, _)
ChainFrom(t, fuel) ==
    IF fuel = 0 \/ WaitsFor(t) = NULL THEN {t}
    ELSE {t} \cup ChainFrom(WaitsFor(t), fuel - 1)

\* Thread h is blocked on a lock whose holder is itself blocked on a lock
\* with a holder, and every thread along that chain reports at least h's
\* effective priority.
NestedDonated(h) ==
    LET m == holder[arg[h]]
    IN  (m # NULL /\ WaitsFor(m) # NULL)
        => \A t \in ChainFrom(m, NumThreads) :
              thread_get_priority(t) >= thread_get_priority(h)

\* C4: nested donation.  Immediately after H has blocked on a lock held by M
\* while M is itself blocked on a lock held by L, every thread along the
\* chain reports an effective priority of at least H's.
C4_NestedDonation ==
    [][\A h \in Threads :
         (pc[h] = "acq_sema" /\ pc'[h] = "acq_wait") => NestedDonated(h)']_vars

\* The threads woken from the semaphore of lock l that have not yet tested
\* its count again.
Woken(l) == {w \in Threads : pc[w] = "acq_wait" /\ arg[w] = l /\ status[w] # "BLOCKED"}

\* The step of thread t is the interrupts-disabled part of lock_release.
ReleaseStep(t) == pc[t] = "run" /\ pc'[t] = "rel_sema_up"

\* C5: after holder L calls lock_release on a lock H was blocked on, L has
\* no donation tied to that lock, and with no other donations its effective
\* priority is its base priority; H, the waiter the release wakes, becomes
\* the holder: no other thread takes the lock's semaphore while H is woken
\* and has not yet taken it.
C5_ReleaseRetractsAndHandsOver ==
    [][/\ \A t \in Threads : ReleaseStep(t) =>
            /\ \A i \in DOMAIN donations'[t] : donations'[t][i].lock # arg'[t]
            /\ (\A i \in DOMAIN donations[t] : donations[t][i].lock = arg'[t])
                   => thread_get_priority(t)' = priority[t]
       /\ \A x \in Threads : \A l \in Locks :
            (arg[x] = l /\ pc[x] \in {"acq_sema", "acq_wait"} /\ pc'[x] = "acq_holder")
                => Woken(l) \subseteq {x}]_vars

\* The greatest member of a non-empty set of priorities.
Greatest(S) == CHOOSE m \in S : \A x \in S : m >= x

\* C6: selective retraction: when a thread releases a lock, exactly the
\* donations tied to the released lock leave its list; every donation tied
\* to another lock stays, in the same order, and still counts toward the
\* effective priority; no other thread's list changes.
C6_SelectiveRetraction ==
    [][\A t \in Threads : ReleaseStep(t) =>
         LET l == arg'[t]
             kept == {i \in DOMAIN donations[t] : donations[t][i].lock # l}
         IN  /\ Len(donations'[t]) = Cardinality(kept)
             /\ \A i \in kept :
                  donations'[t][Cardinality({j \in kept : j <= i})] = donations[t][i]
             /\ thread_get_priority(t)' =
                  Greatest({priority[t]} \cup {donations[t][i].donated_priority : i \in kept})
             /\ \A u \in Threads \ {t} : donations'[u] = donations[u]]_vars

\* C6 witness: a thread is inside lock_release of one lock, a waiter of
\* that lock had donated to it, and a donation tied to another lock it
\* still holds is left in its list.
C6_Witness ==
    \E t \in Threads : \E w \in Threads :
        /\ pc[t] = "rel_sema_up"
        /\ pc[w] = "acq_wait" /\ arg[w] = arg[t] /\ donating_to[w] = t
        /\ \E i \in DOMAIN donations[t] :
             /\ donations[t][i].lock # arg[t]
             /\ holder[donations[t][i].lock] = t
             /\ donations[t][i].donated_priority > priority[t]

\* Position of thread x in list rl.
ReadyPos(rl, x) == CHOOSE i \in DOMAIN rl : rl[i] = x

\* C7: when the running thread calls thread_set_priority with a value that
\* leaves its effective priority strictly below that of some READY thread,
\* that READY thread is dispatched before the call returns: the step either
\* dispatches it or leaves the caller queued behind it.
C7_SetPriorityPreempts ==
    [][\A t \in Threads : \A r \in Range(ready_list) :
         (/\ status[t] = "RUNNING" /\ priority'[t] # priority[t]
          /\ thread_get_priority(r)' > thread_get_priority(t)')
         => \/ current' = r
            \/ /\ t \in Range(ready_list') /\ r \in Range(ready_list')
               /\ ReadyPos(ready_list', r) < ReadyPos(ready_list', t)]_vars

\* C9: FIFO among equals in the ready queue: a thread that enters the ready
\* queue is placed behind every already-queued thread of the same effective
\* priority, so that equal threads leave the queue in the order they entered.
C9_FifoAmongEquals ==
    [][\A x \in Threads : \A y \in Range(ready_list) :
         (/\ x \notin Range(ready_list)
          /\ x \in Range(ready_list') /\ y \in Range(ready_list')
          /\ thread_get_priority(x)' = thread_get_priority(y)')
         => ReadyPos(ready_list', y) < ReadyPos(ready_list', x)]_vars

\* Every created thread of the test is blocked in sema_down on start_sema.
AllBlocked ==
    /\ Cardinality(Live) = 1 + Cardinality(TestPriorities)
    /\ \A t \in Threads \ {1} :
         status[t] = "BLOCKED" /\ t \in Range(waiters[PlainSema])

\* The records made so far are 34, 33, 32 in this order, without gaps.
DescendingOrder ==
    /\ \A i \in 1..3 : execution_order[i] \in {-1, PRI_DEFAULT + 4 - i}
    /\ \A i \in 1..2 : execution_order[i + 1] # -1 => execution_order[i] # -1

UpsDone == (CHOOSE k \in DOMAIN UpPcs : UpPcs[k] = pc[1]) - 1

\* The created threads whose sema_down has returned.
DownsReturned ==
    {t \in Threads \ {1} :
        pc[t] \in {"record", "record_store", "record_count", "fn_return"}}

\* C10: no missed wakeup on a semaphore: a sema_up executed while no thread
\* is waiting adds one to the count and nothing else; a sema_down called
\* with a positive count returns without blocking and takes one unit, one
\* called with a zero count blocks; so the count is always the number of
\* ups minus the number of downs that have returned (four ups for three
\* waiters leave one unit).
C10_NoMissedWakeup ==
    /\ [](sema_value[PlainSema] = UpsDone - Cardinality(DownsReturned))
    /\ [][/\ (pc'[1] # pc[1] /\ waiters[PlainSema] = <<>>)
              => /\ sema_value'[PlainSema] = sema_value[PlainSema] + 1
                 /\ waiters' = waiters /\ status' = status
          /\ \A t \in Threads \ {1} :
               (pc[t] = "run" /\ pc'[t] # "run")
               => IF sema_value[PlainSema] > 0
                  THEN /\ pc'[t] = "record" /\ status'[t] = "RUNNING"
                       /\ sema_value'[PlainSema] = sema_value[PlainSema] - 1
                  ELSE /\ pc'[t] = "sema_down" /\ status'[t] = "BLOCKED"
                       /\ sema_value'[PlainSema] = 0]_vars

\* C10 witness: the main thread made its four sema_up calls while no thread
\* was waiting, and the count holds all four.
C10_Witness ==
    /\ pc[1] = "yield_loop"
    /\ sema_value[PlainSema] = 4
    /\ \A t \in Threads \ {1} : status[t] = "READY" /\ pc[t] = "run"

\* C11: thread_get_priority(t) is the maximum of t's base priority and the
\* greatest amount among the donations t has received, the base priority
\* always being a candidate; it is a function of the state alone, so two
\* queries without a mutation in between agree and change nothing.
C11_EffectivePriorityIsMax ==
    \A t \in Threads :
        /\ thread_get_priority(t) =
              Greatest({priority[t]} \cup
                       {donations[t][i].donated_priority : i \in DOMAIN donations[t]})
        /\ thread_get_priority(t) >= priority[t]

\* C11 witness: a thread holds two donations of different amounts and has a
\* base priority above the smaller and below the greater one.
C11_Witness ==
    \E t \in Threads : \E i, j \in DOMAIN donations[t] :
        /\ donations[t][i].donated_priority < priority[t]
        /\ priority[t] < donations[t][j].donated_priority

\* C12: each lock with holder T is in T's held_locks and in no other
\* thread's, and a lock without holder is in no thread's held_locks, in
\* every state another thread can observe: every state but those in which
\* the running thread itself is between two statements of lock_acquire on
\* that lock.
C12_HolderMatchesHeldLocks ==
    \A l \in Locks :
        ~(current \in Threads /\ pc[current] = "acq_clear" /\ arg[current] = l)
        => \A u \in Threads : (l \in Range(held_locks[u])) <=> (holder[l] = u)

\* C13: exactly one thread is RUNNING, the idle thread when current is
\* IDLE; the READY threads are those of the ready list; and a dispatch made
\* when no thread is READY runs the idle thread.
C13_ExactlyOneRunning ==
    /\ [](/\ current \in Threads \cup {IDLE}
          /\ \A t \in Threads : (status[t] = "RUNNING") <=> (t = current)
          /\ \A t \in Threads : (status[t] = "READY") <=> (t \in Range(ready_list))
          /\ current = IDLE => ready_list = <<>>)
    /\ [][\A t \in Threads :
            (status[t] = "RUNNING" /\ status'[t] \notin {"RUNNING", "READY"})
            => (current' = IDLE <=> ready_list = <<>>)]_vars

\* C13 witness: every created thread is blocked and the idle thread runs.
C13_Witness ==
    /\ current = IDLE
    /\ \E t \in Threads : status[t] = "BLOCKED"

\* C14: lock_acquire called by the holder of the lock and lock_release
\* called by a thread that is not the holder end in a fatal assertion
\* failure: the caller stops in the panic, and neither the lock's holder
\* nor any donation list changes.
C14_MisuseIsFatal ==
    [][\A t \in Threads : \A l \in Locks :
         (/\ pc[t] = "run" /\ arg'[t] = l
          /\ \/ pc'[t] \in {"acq_sema", "acq_walk_forever"} /\ holder[l] = t
             \/ pc'[t] = "rel_sema_up" /\ holder[l] # t)
         => /\ pc'[t] = "panic"
            /\ holder' = holder
            /\ donations' = donations]_vars

\* C15: sema_up increments the count by exactly one, whether or not it woke
\* a waiter, and its caller keeps running; the count is never negative: it
\* decreases by one at a time and only from a positive value, and a thread
\* that blocks on the semaphore found the count zero and left it zero.
C15_SemaCount ==
    /\ [](\A s \in Semas : sema_value[s] >= 0)
    /\ [][/\ pc'[1] # pc[1]
              => /\ sema_value'[PlainSema] = sema_value[PlainSema] + 1
                 /\ current' = 1 /\ status'[1] = "RUNNING"
          /\ sema_value'[PlainSema] < sema_value[PlainSema]
              => /\ sema_value[PlainSema] > 0
                 /\ sema_value'[PlainSema] = sema_value[PlainSema] - 1
          /\ \A t \in Threads :
               (status[t] # "BLOCKED" /\ status'[t] = "BLOCKED")
               => sema_value[PlainSema] = 0 /\ sema_value'[PlainSema] = 0]_vars

\* C15 witness: a sema_up of the main thread has woken a waiter and the
\* count is one; the waiter has not run yet.
C15_Witness ==
    /\ pc[1] = "up_1"
    /\ sema_value[PlainSema] = 1
    /\ \E t \in Threads \ {1} : pc[t] = "sema_down" /\ status[t] = "READY"

\* A step that removes w, and only w, from the condition's waiters and wakes
\* it: w had the greatest effective priority of the waiters, its semaphore
\* is upped, it is READY afterwards if it was blocked on that semaphore, and
\* no other thread's semaphore or status changes.
WakesHighest(w) ==
    /\ w \in Range(cond_waiters)
    /\ cond_waiters' = SelectSeq(cond_waiters, LAMBDA r : r # w)
    /\ \A r \in Range(cond_waiters) :
           thread_get_priority(w) >= thread_get_priority(r)
    /\ sema_value'[WaitSema(w)] = sema_value[WaitSema(w)] + 1
    /\ (status[w] = "BLOCKED" /\ pc[w] = "cw_wait") => status'[w] = "READY"
    /\ \A r \in Threads \ {w} :
           /\ sema_value'[WaitSema(r)] = sema_value[WaitSema(r)]
           /\ status'[r] = status[r]

\* A thread that is in the condition's waiters has not been signalled: its
\* semaphore's count is 0 and it is either on its way to sema_down or
\* blocked in it.
WaitsForSignal(t) ==
    /\ sema_value[WaitSema(t)] = 0
    /\ \/ cw[t] = "release"
       \/ cw[t] = "sema_down" /\ pc[t] = "cw_wait" /\ status[t] = "BLOCKED"

\* C16: a cond_signal on a condition with waiters wakes exactly one of them,
\* the one of greatest effective priority; a semaphore of a waiter is upped
\* only by the step that takes that waiter out of the waiters, so a signal
\* on a condition without waiters is not remembered, and a thread that
\* called cond_wait stays before or blocked in its sema_down for as long as
\* it is in the waiters.
C16_SignalWakesHighestOnly ==
    /\ [][/\ Len(cond_waiters') < Len(cond_waiters)
             => \E w \in Threads : WakesHighest(w)
          /\ \A t \in Threads :
                 sema_value'[WaitSema(t)] > sema_value[WaitSema(t)]
                 => t \in Range(cond_waiters) /\ t \notin Range(cond_waiters')]_vars
    /\ [](\A t \in Range(cond_waiters) : WaitsForSignal(t))

\* A signal has just woken the highest of several waiters: it is READY,
\* still at its sema_down, while a waiter of strictly lower priority stays
\* blocked in the waiters.
C16_Witness ==
    \E w \in Threads :
        /\ cw[w] = "sema_down" /\ pc[w] = "cw_wait" /\ status[w] = "READY"
        /\ w \notin Range(cond_waiters)
        /\ sema_value[WaitSema(w)] = 1
        /\ cond_waiters # <<>>
        /\ \A r \in Range(cond_waiters) :
               /\ status[r] = "BLOCKED" /\ pc[r] = "cw_wait"
               /\ thread_get_priority(r) < thread_get_priority(w)

\* C17: while a thread is inside cond_broadcast no thread joins the
\* waiters, every step that changes the waiters wakes the waiter of greatest
\* effective priority among those left, and the broadcast returns only with
\* the waiters empty.
C17_BroadcastWakesAllDescending ==
    [][\A b \in Threads :
          pc[b] = "bc_loop"
          => /\ pc'[b] = "run" => cond_waiters = <<>> /\ cond_waiters' = <<>>
             /\ cond_waiters' # cond_waiters => \E w \in Threads : WakesHighest(w)]_vars

\* A broadcast has woken two waiters and is about to return: both are
\* READY at their sema_down and the waiters list is empty.
C17_Witness ==
    \E b \in Threads :
        /\ pc[b] = "bc_loop" /\ cond_waiters = <<>>
        /\ \E w1 \in Threads : \E w2 \in Threads \ {w1} :
               \A w \in {w1, w2} :
                   /\ cw[w] = "sema_down" /\ pc[w] = "cw_wait"
                   /\ status[w] = "READY" /\ sema_value[WaitSema(w)] = 1

\* C18: a thread blocked inside cond_wait neither holds the lock nor has it
\* in its held_locks, and every return from cond_wait is made by the lock's
\* holder.
C18_WaitReleasesAndReacquires ==
    /\ [](\A t \in Threads :
              (cw[t] = "sema_down" /\ pc[t] = "cw_wait")
              => holder[InvLock] # t /\ InvLock \notin Range(held_locks[t]))
    /\ [][\A t \in Threads :
              (cw[t] # "none" /\ cw'[t] = "none")
              => holder[InvLock] = t /\ holder'[InvLock] = t]_vars

\* A thread is blocked inside cond_wait, in the condition's waiters, while
\* another thread has acquired the lock it released.
C18_Witness ==
    \E t \in Threads : \E u \in Threads \ {t} :
        /\ cw[t] = "sema_down" /\ pc[t] = "cw_wait" /\ status[t] = "BLOCKED"
        /\ t \in Range(cond_waiters)
        /\ holder[InvLock] = u /\ InvLock \in Range(held_locks[u])

\* The parent is blocked in the sema_down of process_wait on the exit_sema
\* of child c.
BlockedOnExitSema(p, c) ==
    /\ proc[p].at = "pw_relock" /\ proc[p].pid = c
    /\ pc[p] = "pw_wait" /\ status[p] = "BLOCKED"
    /\ p \in Range(waiters[exit_sema(c)])

\* C19: a process_wait on a direct child that has not been waited for takes
\* the path that reads the child's exit_status; every value returned on that
\* path is the status the child passed to exit (-1 when it was killed) and
\* the child has exited by then; and the caller is never left blocked on
\* exit_sema by a child that has finished process_exit.
C19_WaitReturnsExitStatus ==
    /\ [](\A i \in 1..Len(wait_log) :
              wait_log[i].status_read
              => /\ child_info[wait_log[i].pid].has_exited
                 /\ wait_log[i].value = proc[wait_log[i].pid].status)
    /\ [][\A p \in Threads :
              (/\ proc[p].at = "pw_acquire" /\ proc'[p].at # "pw_acquire"
               /\ child_info[proc[p].pid].listed
               /\ ~child_info[proc[p].pid].has_been_waited)
              => proc'[p].at = "pw_mark"]_vars
    /\ [](\A p \in Threads, c \in Threads :
              BlockedOnExitSema(p, c) => proc[c].at # "exited")

\* No two returns of process_wait hand out the exit status of the same pid.
OneStatusPerChild ==
    \A i \in 1..Len(wait_log), j \in 1..Len(wait_log) :
        (i < j /\ wait_log[i].pid = wait_log[j].pid)
        => ~(wait_log[i].status_read /\ wait_log[j].status_read)

\* C20: a process_wait whose pid has no child_info in the caller's children
\* list, or whose child_info has has_been_waited set, goes from the search
\* to the release of the lock and the return of -1 without reaching the
\* sema_down on exit_sema; and for no pid do two calls return the exit
\* status.
C20_WaitFailsWithoutBlocking ==
    /\ [][\A p \in Threads :
              /\ (/\ proc[p].at = "pw_acquire" /\ proc'[p].at # "pw_acquire"
                  /\ \/ ~child_info[proc[p].pid].listed
                     \/ child_info[proc[p].pid].has_been_waited)
                 => proc'[p].at = "pw_fail"
              /\ proc[p].at = "pw_fail"
                 => /\ proc'[p].at \in {"pw_fail", "none"}
                    /\ pc'[p] # "pw_wait"
                    /\ proc'[p].at = "none"
                       => /\ Len(wait_log') = Len(wait_log) + 1
                          /\ wait_log'[Len(wait_log')].value = -1
                          /\ ~wait_log'[Len(wait_log')].status_read]_vars
    /\ []OneStatusPerChild

\* The parent has waited twice for the same child, first receiving its exit
\* status and then -1, and once for a pid that is not its child.
C20_Witness ==
    /\ \E i \in 1..Len(wait_log), j \in 1..Len(wait_log) :
           /\ i < j /\ wait_log[i].pid = wait_log[j].pid
           /\ wait_log[i].status_read
           /\ ~wait_log[j].status_read /\ wait_log[j].value = -1
    /\ \E k \in 1..Len(wait_log) :
           /\ ~child_info[wait_log[k].pid].listed
           /\ status[wait_log[k].pid] = "NONE"
           /\ wait_log[k].value = -1

\* The child of the process_execute that p is inside has done the sema_up
\* of start_process.
ChildSignalled(p) == proc[proc[p].pid].at \notin {"none", "start_up"}

C22_FilesysMutualExclusion ==
    /\ \A t \in Threads :
           InFileSystem(t) => holder[filesys_lock] = t /\ HoldsFilesysLock(t)
    /\ Cardinality({t \in Threads : InFileSystem(t)}) <= 1

\* A thread is inside file_close in destroy_file_descriptor_table, having
\* been preempted there, while a second thread is blocked in the
\* lock_acquire of its file system call.
C22_Witness ==
    \E t \in Threads : \E u \in Threads \ {t} :
        /\ proc[t].at = "dt_close" /\ Running(t)
        /\ proc[u].at = "fs_acquire"
        /\ status[u] = "BLOCKED" /\ u \in Range(waiters[filesys_lock])


\* t is on the sleep list.
Sleeping(t) == t \in Range(sleep_list)

\* A step of timer_sleep by some thread, or a timer interrupt.
SleepStep ==
    \/ ticks' # ticks
    \/ \E t \in Threads :
           /\ pc'[t] # pc[t]
           /\ \/ pc[t] \in {"sleep_enter", "sleep_block", "sleep_woken", "sleep_skip"}
              \/ pc'[t] \in {"sleep_enter", "sleep_block", "sleep_woken", "sleep_skip"}

\* C23: timer_sleep(ticks) returns at once, without blocking, when
\* ticks <= 0; otherwise the caller becomes BLOCKED with wake_time = current
\* ticks + ticks, is not made READY at a tick earlier than wake_time, is made
\* READY by the timer interrupt at the first tick at which the tick count is
\* >= wake_time (so no sleeper is ever overdue), and sleeping creates no
\* lock or donation relationship.
C23_TimerSleep ==
    /\ [][\A t \in Threads :
             (pc[t] = "run" /\ pc'[t] \in {"sleep_skip", "sleep_enter"})
             => /\ (arg'[t] <= 0) <=> (pc'[t] = "sleep_skip")
                /\ status'[t] = "RUNNING"
                /\ UNCHANGED <<sleep_list, ready_list, current>>]_vars
    /\ [][\A t \in Threads :
             (pc[t] = "sleep_skip" /\ pc'[t] # pc[t])
             => pc'[t] = "run" /\ status'[t] = "RUNNING" /\ ~Sleeping(t)']_vars
    /\ [][\A t \in Threads :
             (~Sleeping(t) /\ Sleeping(t)')
             => /\ status'[t] = "BLOCKED"
                /\ arg[t] > 0
                /\ wake_time'[t] = ticks + arg[t]]_vars
    /\ [](\A t \in Threads :
             Sleeping(t) => status[t] = "BLOCKED" /\ wake_time[t] > ticks)
    /\ [][\A t \in Threads :
             (Sleeping(t) /\ ~Sleeping(t)')
             => /\ ticks' = ticks + 1
                /\ ticks' >= wake_time[t]
                /\ status'[t] \in {"READY", "RUNNING"}]_vars
    /\ [][\A t \in Threads :
             (Sleeping(t) /\ ticks' # ticks /\ wake_time[t] <= ticks')
             => ~Sleeping(t)' /\ status'[t] \in {"READY", "RUNNING"}]_vars
    /\ [][SleepStep
           => UNCHANGED <<donations, donating_to, held_locks, holder,
                          waiters, sema_value>>]_vars
    /\ [](\A t \in Threads :
             Sleeping(t) => /\ donating_to[t] = NULL
                            /\ \A s \in Semas : t \notin Range(waiters[s]))

\* The same with "current ticks" read when timer_sleep computes wake_time
\* instead of when the caller blocks, and without the overdue clause.
SleepExceptWindow ==
    /\ [][\A t \in Threads :
             (pc[t] = "run" /\ pc'[t] \in {"sleep_skip", "sleep_enter"})
             => /\ (arg'[t] <= 0) <=> (pc'[t] = "sleep_skip")
                /\ status'[t] = "RUNNING"
                /\ UNCHANGED <<sleep_list, ready_list, current>>]_vars
    /\ [][\A t \in Threads :
             (~Sleeping(t) /\ Sleeping(t)')
             => status'[t] = "BLOCKED" /\ arg[t] > 0]_vars
    /\ [][\A t \in Threads :
             (Sleeping(t) /\ ~Sleeping(t)')
             => /\ ticks' = ticks + 1
                /\ ticks' >= wake_time[t]
                /\ status'[t] \in {"READY", "RUNNING"}]_vars
    /\ [][\A t \in Threads :
             (Sleeping(t) /\ ticks' # ticks /\ wake_time[t] <= ticks')
             => ~Sleeping(t)']_vars
    /\ [][SleepStep
           => UNCHANGED <<donations, donating_to, held_locks, holder,
                          waiters, sema_value>>]_vars
    /\ [](\A t \in Threads :
             Sleeping(t) => /\ donating_to[t] = NULL
                            /\ \A s \in Semas : t \notin Range(waiters[s]))

SleepCriticalNext ==
    \/ sleep_create
    \/ sleep_call
    \/ sleep_critical
    \/ sleep_return
    \/ sleep_tick
    \/ sleep_lock_acquire
    \/ sleep_lock_release
    \/ inv_acquire_sema_down
    \/ inv_acquire_sema_retry
    \/ inv_acquire_set_holder
    \/ inv_acquire_finish
    \/ inv_release_sema_up
    \/ inv_release_yield_check

SpecSleepCritical == BasicInit /\ [][SleepCriticalNext]_vars

\* C24: sema_up, and so lock_release, wakes the waiter whose effective
\* priority is greatest at the moment of waking, also when that waiter was
\* raised by a donation received after it entered the waiters list.
C24_WakesGreatestAtWaking ==
    [][\A s \in Semas : \A w \in Range(waiters[s]) :
          w \notin Range(waiters'[s])
          => \A v \in Range(waiters[s]) :
                thread_get_priority(w) >= thread_get_priority(v)]_vars

\* Thread 1 is about to do the sema_up of its release of lock 1, whose
\* waiters are thread 3 and, behind it, thread 2, raised above thread 3 by
\* the donation of thread 4 through lock 2.
C24_Witness ==
    /\ Running(1) /\ pc[1] = "rel_sema_up" /\ arg[1] = 1
    /\ waiters[1] = <<3, 2>>
    /\ holder[2] = 2 /\ donating_to[4] = 2
    /\ thread_get_priority(2) > thread_get_priority(3)

\* C25: when lock_release returns, no READY thread has an effective priority
\* strictly greater than the releaser's new effective priority without
\* having run first: if some READY thread is strictly higher at the yield
\* check, the releaser yields before lock_release returns.
C25_ReleaseYieldsToHigher ==
    [][\A t \in Threads :
          (pc[t] = "rel_yield" /\ pc'[t] = "run")
          => ((\E r \in Threads :
                  /\ status[r] = "READY"
                  /\ thread_get_priority(r) > thread_get_priority(t))
              => status'[t] = "READY" /\ current' # t)]_vars

\* The place of waiter x in the waiters list ws.
WaitPos(ws, x) == CHOOSE i \in DOMAIN ws : ws[i] = x

\* C26: FIFO among equals in waiters lists: threads of equal effective
\* priority that blocked on the same semaphore in the order A, B are woken
\* in the order A, B, also after the list was re-ordered because some
\* waiter's priority changed: a thread that enters the waiters goes behind
\* every waiter of the same effective priority, waiters of the same
\* effective priority keep their order, and a wake-up takes the first of
\* the waiters of the woken thread's effective priority.
C26_WaitersFifoAmongEquals ==
    /\ [][\A s \in Semas : \A x \in Threads : \A y \in Range(waiters[s]) :
             (/\ x \notin Range(waiters[s])
              /\ x \in Range(waiters'[s]) /\ y \in Range(waiters'[s])
              /\ thread_get_priority(x)' = thread_get_priority(y)')
             => WaitPos(waiters'[s], y) < WaitPos(waiters'[s], x)]_vars
    /\ [][\A s \in Semas : \A y \in Range(waiters[s]) : \A z \in Range(waiters[s]) :
             (/\ y \in Range(waiters'[s]) /\ z \in Range(waiters'[s])
              /\ thread_get_priority(y)' = thread_get_priority(z)'
              /\ WaitPos(waiters[s], y) < WaitPos(waiters[s], z))
             => WaitPos(waiters'[s], y) < WaitPos(waiters'[s], z)]_vars
    /\ [][\A s \in Semas : \A w \in Range(waiters[s]) : \A v \in Range(waiters[s]) :
             (/\ w \notin Range(waiters'[s]) /\ v # w
              /\ thread_get_priority(v) = thread_get_priority(w))
             => WaitPos(waiters[s], w) < WaitPos(waiters[s], v)]_vars

\* The thread that a thread_yield or a timer tick dispatches when t is the
\* running thread: t is inserted into the ready list, then the front runs.
YieldPick(t) == Head(list_insert_ordered(ready_list, t, EffIn(priority, donations)))

\* C27: on thread_yield or timer-tick preemption the running thread is
\* inserted into the ready queue before the next thread is selected: if its
\* effective priority is strictly greater than that of every other READY
\* thread it is selected again at once (it never goes from RUNNING to
\* READY), and if some other READY thread has the same effective priority
\* that other thread is selected first.
C27_YieldReinsertsBeforeSelecting ==
    /\ [](\A t \in Threads :
             (/\ Running(t)
              /\ \A r \in Threads \ {t} :
                    status[r] = "READY" => thread_get_priority(r) < thread_get_priority(t))
             => YieldPick(t) = t)
    /\ [][\A t \in Threads :
             (status[t] = "RUNNING" /\ status'[t] = "READY")
             => \E r \in Threads \ {t} :
                    /\ status[r] = "READY"
                    /\ thread_get_priority(r)' >= thread_get_priority(t)']_vars
    /\ [](\A t \in Threads :
             (/\ Running(t)
              /\ \E r \in Threads \ {t} :
                    status[r] = "READY" /\ thread_get_priority(r) = thread_get_priority(t))
             => YieldPick(t) # t)

\* The number of occurrences of t in the list ws.
Occurrences(ws, t) == Cardinality({i \in DOMAIN ws : ws[i] = t})

\* The number of list memberships of t: the ready queue, the waiters of
\* every semaphore, and the condition's waiters.  A waiter of the condition
\* that is blocked on the semaphore of its own wait slot is in one list.
Memberships(t) ==
    Occurrences(ready_list, t)
    + Cardinality({s \in Semas : t \in Range(waiters[s])})
    + (IF t \in Range(cond_waiters) /\ t \notin Range(waiters[WaitSema(t)])
       THEN 1 ELSE 0)

\* C28: in every reachable state each thread is a member of at most one
\* list among the ready queue, all semaphore waiters lists and all
\* condition waiters lists; in particular a thread that has put itself on
\* a condition's waiters list is never on the ready queue at the same time.
C28_SingleWaitState ==
    \A t \in Threads :
        /\ Memberships(t) <= 1
        /\ \A s \in Semas : Occurrences(waiters[s], t) <= 1
        /\ Occurrences(cond_waiters, t) <= 1
        /\ t \in Range(cond_waiters) => t \notin Range(ready_list)

\* The same for the ready queue and the semaphores only.
SingleWaitStateSema ==
    \A t \in Threads :
        /\ Occurrences(ready_list, t)
           + Cardinality({s \in Semas : t \in Range(waiters[s])}) <= 1
        /\ \A s \in Semas : Occurrences(waiters[s], t) <= 1

\* t is inside lock_acquire(l) and has not yet come back from its
\* sema_down: it is about to block, blocked, or woken and not yet running
\* on.
WaitsForLock(t, l) ==
    /\ pc[t] \in {"acq_sema", "acq_wait", "acq_walk_forever"}
    /\ arg[t] = l

\* C29: in every reachable state a thread's donating_to is non-null only
\* while that thread is blocked in lock_acquire, and it then names the
\* thread that currently holds the lock the thread is waiting for; it is
\* null for every thread that is not waiting for a lock.
C29_DonatingToNamesHolder ==
    \A t \in Threads :
        /\ donating_to[t] # NULL
           => \E l \in Locks : WaitsForLock(t, l) /\ holder[l] = donating_to[t]
        /\ (\A l \in Locks : ~WaitsForLock(t, l)) => donating_to[t] = NULL

\* The holder of the lock that t is waiting for inside lock_acquire, NULL
\* when t waits for no lock or the lock is free.
WaitEdge(t) ==
    IF \E l \in Locks : WaitsForLock(t, l) THEN holder[arg[t]] ELSE NULL

\* The threads reached from t along the holders of the locks waited for.
RECURSIVE HoldersFrom(_, _)
HoldersFrom(t, fuel) ==
    IF fuel = 0 \/ t = NULL THEN {}
    ELSE {t} \cup HoldersFrom(WaitEdge(t), fuel - 1)

\* Some set of threads waits for locks in a cycle.
WaitCycle == \E t \in Threads : t \in HoldersFrom(WaitEdge(t), NumThreads)

\* The number of donating_to links the chain walk follows from recipient r.
RECURSIVE WalkLinks(_, _, _)
WalkLinks(dt, r, fuel) ==
    IF fuel = 0 \/ dt[r] = NULL THEN 0
    ELSE 1 + WalkLinks(dt, dt[r], fuel - 1)

\* C30: the donation chain walk of lock_acquire terminates in every
\* reachable state in which no set of threads waits for locks in a cycle:
\* it follows at most as many donating_to links as there are locks and
\* never revisits a thread.
C30_ChainWalkTerminates ==
    /\ [][\A t \in Threads :
             (/\ pc[t] = "run" /\ pc'[t] \in {"acq_sema", "acq_walk_forever"}
              /\ holder[arg'[t]] # NULL
              /\ ~WaitCycle')
             => /\ pc'[t] = "acq_sema"
                /\ WalkLinks(donating_to', holder[arg'[t]], NumThreads) <= NumLocks]_vars
    /\ []((\E t \in Threads : pc[t] = "acq_walk_forever") => WaitCycle)

\* Thread t is in the window of lock_acquire between intr_set_level
\* (design_doc.md:309) and sema_down (311), having seen the lock held and
\* inserted its donation.
InBlockWindow(t) ==
    /\ status[t] \in {"RUNNING", "READY"}
    /\ pc[t] = "acq_sema"
    /\ donating_to[t] # NULL

\* C31: blocking in lock_acquire is atomic.  From the moment the caller has
\* seen the lock held and inserted its donation until it is BLOCKED in the
\* waiters of the lock's semaphore, the caller stays the running thread, the
\* lock keeps the holder the caller saw, and the step that ends the window
\* leaves the caller BLOCKED in those waiters.
C31_BlockingIsAtomic ==
    /\ [](\A t \in Threads : InBlockWindow(t) =>
            /\ current = t
            /\ holder[arg[t]] = donating_to[t])
    /\ [][\A t \in Threads :
            (InBlockWindow(t) /\ ~InBlockWindow(t)') =>
                /\ status'[t] = "BLOCKED"
                /\ t \in Range(waiters'[arg[t]])]_vars

\* C32: in every reachable state each thread's donations list is sorted by
\* donated_priority, highest first, and its front carries the greatest
\* donated_priority of the list.
C32_DonationsSorted ==
    \A t \in Threads :
        /\ \A i \in 1..Len(donations[t]), j \in 1..Len(donations[t]) :
              i < j => donations[t][i].donated_priority >= donations[t][j].donated_priority
        /\ donations[t] # <<>> =>
              \A i \in 1..Len(donations[t]) :
                  Head(donations[t]).donated_priority >= donations[t][i].donated_priority

\* Thread 1 holds lock 1 with thread 3 (30) and thread 2 (10) waiting; the
\* chain walk of thread 4 (60) through thread 2 raised thread 2's donation
\* from the tail of the list to 60 and the list was sorted again.
C32_Witness ==
    /\ holder[1] = 1
    /\ donating_to[4] = 2 /\ donating_to[2] = 1
    /\ Len(donations[1]) = 2
    /\ donations[1][1].donor = 2 /\ donations[1][1].donated_priority = 60
    /\ donations[1][2].donor = 3 /\ donations[1][2].donated_priority = 30

\* Donor d of a donation tied to lock l is blocked waiting for l, or is the
\* running thread between its donation and its sema_down on l.
DonorWaits(d, l) ==
    \/ status[d] = "BLOCKED" /\ d \in Range(waiters[l])
    \/ Running(d) /\ pc[d] = "acq_sema" /\ arg[d] = l

\* Every donation in a thread's list is tied to a lock that thread holds.
DonationsTiedToHeldLocks ==
    \A t \in Threads : \A i \in 1..Len(donations[t]) :
        holder[donations[t][i].lock] = t

\* No donation tied to lock l is left in any list once l has been released.
NoDonationOutlivesRelease ==
    [][\A l \in Locks :
          (holder[l] # NULL /\ holder'[l] = NULL) =>
              \A t \in Threads : \A i \in 1..Len(donations'[t]) :
                  donations'[t][i].lock # l]_vars

\* C33: every donation in the list of a thread T is tied to a lock T holds
\* and comes from a donor that is blocked waiting for that lock, so a thread
\* that holds no lock another thread is blocked on has no donation; and no
\* donation outlives the release of its lock.
C33_DonationsOfBlockedWaiters ==
    /\ [](DonationsTiedToHeldLocks)
    /\ [](\A t \in Threads : \A i \in 1..Len(donations[t]) :
            DonorWaits(donations[t][i].donor, donations[t][i].lock))
    /\ [](\A t \in Threads :
            (\A l \in Locks : holder[l] = t =>
                ~\E w \in Threads : DonorWaits(w, l))
            => donations[t] = <<>>)
    /\ NoDonationOutlivesRelease

\* C34: whenever a thread W is BLOCKED in the waiters of a lock's semaphore
\* and a thread T holds that lock, the effective priority of T is at least
\* the effective priority of W.
C34_HolderAtLeastWaiter ==
    \A l \in Locks : \A w \in Threads :
        (status[w] = "BLOCKED" /\ w \in Range(waiters[l]) /\ holder[l] # NULL)
            => thread_get_priority(holder[l]) >= thread_get_priority(w)

\* C35: no thread enters syscall_exit / process_exit, re-acquires
\* filesys_lock in destroy_file_descriptor_table, dies, or is back in user
\* code while it is the holder of filesys_lock.
C35_NoExitWithFilesysLock ==
    \A t \in Threads :
        holder[filesys_lock] = t =>
            /\ proc[t].at \notin {"exit", "dt_acquire_held", "exited", "none"}
            /\ status[t] # "DYING"

\* The elements of sequence s are pairwise distinct.
Distinct(s) == \A i \in 1..Len(s), j \in 1..Len(s) : i # j => s[i] # s[j]

\* C36: in every reachable state the descriptor numbers in a process's
\* open_files are pairwise distinct, each at least FIRST_FILE_FD and below
\* next_fd; open has returned no number twice, also after a close; and
\* find_file_descriptor finds no entry for the descriptors 0 and 1.
C36_DescriptorsUnique ==
    \A t \in Threads :
        /\ Distinct(proc[t].fds)
        /\ \A i \in 1..Len(proc[t].fds) :
              proc[t].fds[i] >= FIRST_FILE_FD /\ proc[t].fds[i] < proc[t].next_fd
        /\ Distinct(proc[t].fd_log)
        /\ \A fd \in {STDIN_FILENO, STDOUT_FILENO} :
              find_file_descriptor(proc[t].fds, fd) = 0

\* A process opened two files, closed the first and opened a third one after
\* the close: the number of the closed file was not handed out again.
C36_Witness ==
    \E t \in Threads :
        /\ proc[t].fd_log = <<2, 3, 4>>
        /\ proc[t].fds = <<3, 4>>
        /\ proc[t].ret = 4

\* Thread t is inside cond_wait and has not yet passed the sema_down on its
\* private semaphore.
AwaitsSignal(t) ==
    \/ cw[t] = "release"
    \/ cw[t] = "sema_down" /\ pc[t] = "cw_wait"

\* A waiter that a signal has taken off the condition's waiters is not left
\* blocked: the count of its private semaphore holds the signal until the
\* waiter consumes it.
NoLostWakeup ==
    \A t \in Threads :
        (AwaitsSignal(t) /\ t \notin Range(cond_waiters)) =>
            /\ sema_value[WaitSema(t)] >= 1
            /\ status[t] # "BLOCKED"

\* C37: no wakeup is lost on a condition variable, also when the signal
\* comes before the waiter is BLOCKED, and the waiter a signal takes off the
\* condition's waiters is BLOCKED at that moment, never READY or RUNNING.
C37_NoLostWakeup ==
    /\ [](NoLostWakeup)
    /\ [][\A w \in Threads :
            (w \in Range(cond_waiters) /\ w \notin Range(cond_waiters')) =>
                status[w] = "BLOCKED"]_vars

\* C38: a thread created with a priority strictly greater than its creator's
\* effective priority is the running thread when the creation step is over,
\* and in the test the main thread is past its three thread_create calls
\* only with every created thread already in its sema_down on start_sema or
\* further.
C38_CreatedHigherRunsFirst ==
    /\ [][\A n \in Threads :
            (status[n] = "NONE" /\ status'[n] # "NONE"
             /\ priority'[n] > thread_get_priority(current)) => current' = n]_vars
    /\ [](\A t \in Threads \ {1} :
            (Running(1) /\ Cardinality(Live) = 1 + Cardinality(TestPriorities)) =>
                pc[t] # "run")

\* Thread t is BLOCKED in the waiters of some child's exit_sema.
BlockedOnSomeExitSema(t) ==
    /\ status[t] = "BLOCKED"
    /\ \E c \in Threads : t \in Range(waiters[exit_sema(c)])

\* C39: no thread is blocked on an exit_sema while it holds children_lock,
\* no thread is BLOCKED at all while it holds children_lock, and when a
\* child finishes the first part of process_exit no parent is left BLOCKED in
\* the waiters of that child's exit_sema.
C39_WaitExitNoDeadlock ==
    /\ [](\A t \in Threads :
            BlockedOnSomeExitSema(t) =>
                ~HoldsChildrenLock(t) /\ holder[children_lock] # t)
    /\ [](\A t \in Threads :
            (HoldsChildrenLock(t) \/ holder[children_lock] = t) =>
                status[t] # "BLOCKED")
    /\ [][\A c \in Threads :
            (proc[c].at \in {"px_acquire", "px_sema_up"} /\ proc'[c].at = "px_release") =>
                \A p \in Threads :
                    ~(status'[p] = "BLOCKED" /\ p \in Range(waiters'[exit_sema(c)]))]_vars

\* The parent was BLOCKED on the child's exit_sema when the child, holding
\* children_lock, did its sema_up: the parent is READY again inside
\* sema_down and the child is about to release the lock.
C39_Witness ==
    \E p \in Threads, c \in Threads :
        /\ proc[c].at = "px_release" /\ HoldsChildrenLock(c)
        /\ proc[p].at = "pw_relock" /\ proc[p].pid = c
        /\ pc[p] = "pw_wait" /\ status[p] = "READY"
        /\ child_info[c].has_exited

\* The main process has removed and destroyed the child_info of its
\* children.
ChildrenDestroyed == proc[1].at \in {"pc_release", "exited"}

\* C40: once the parent has removed and destroyed the child_info of its
\* children, no child is or becomes the holder of the parent's
\* children_lock, and no child_info is written.
C40_NoUseAfterParentCleanup ==
    /\ [](ChildrenDestroyed =>
            \A c \in Threads \ {1} :
                holder[children_lock] # c /\ ~HoldsChildrenLock(c))
    /\ [][ChildrenDestroyed => child_info' = child_info]_vars

========================================================================
